---- MODULE Spec2Model ----
(***************************************************************************)
(* A model of snakebite's NameNode RPC stack:                              *)
(*   - HAClient            (snakebite/client.py)                           *)
(*   - HARpcService        (snakebite/service.py)                          *)
(*   - SocketRpcChannel    (snakebite/channel.py)                          *)
(* Each specification below exercises one of these objects against an     *)
(* environment (the NameNodes and the network) that chooses the outcome of *)
(* every RPC attempt.                                                      *)
(***************************************************************************)
EXTENDS Integers, Sequences, FiniteSets, TLC

(***************************************************************************)
(* Bounds of the model.                                                    *)
(***************************************************************************)
MaxNamenodes == 2      \* NameNodes handed to HAClient / HARpcService
MaxCalls == 3          \* calls made on one HAClient / HARpcService
MaxItems == 2          \* items a generator-type method yields per run
MaxChanCalls == 4      \* CallMethod invocations on one SocketRpcChannel

(***************************************************************************)
(* Values asserted by test/client_test.py.                                 *)
(***************************************************************************)
failover_attempts == 3
retry_attempts == 2

VARIABLES
    \* ---- HAClient
    ha_pc,          \* "unbuilt" | "idle" | "running" | "done"
    nn_count,       \* len(namenodes) given to HAClient.__init__
    ha_active,      \* index of the namenode Client.__init__ last bound (host, port, service)
    ha_gen,         \* self.namenode, the _switch_namenode generator: "suspended" | "finished"
    ha_calls,       \* calls started on this client
    ha_kind,        \* "return" | "gen": which decorator wraps the running method
    ha_attempts,    \* per call: namenode index of every run of func (one RPC attempt each)
    ha_errors,      \* per call: the exception each failed run raised
    ha_progress,    \* items the current run of func has yielded
    ha_emitted,     \* per call: every item handed to the caller of the generator
    ha_outcome,     \* per call: how the call ended, as the caller sees it
    ha_result,      \* per call: value returned by a return-type method
    ha_succeeded,   \* some earlier call on this client completed successfully
    \* ---- HARpcService
    svc_pc,         \* "unbuilt" | "idle" | "active" (_try_active_service) | "iter" (_try_iterative_service_calls) | "done"
    services,       \* self.services: tuple of RpcService, named by position in namenodes
    active_service, \* self.active_service: a service, or 0 for None
    reason,         \* service.controller.reason of every service ("None" for None)
    svc_calls,      \* calls started on this HARpcService
    svc_index,      \* position of the for loop of _try_iterative_service_calls
    svc_log,        \* per call: every RPC issued, with the service and its reply
    svc_outcome,    \* per call: how the call ended, as the caller sees it
    svc_result,     \* per call: the value returned
    \* ---- SocketRpcChannel
    ch_pc,          \* "unbuilt" | "ready"
    use_sasl,       \* self.use_sasl
    sock,           \* self.sock: "None" | "open"
    call_id,        \* self.call_id
    conn_count,     \* sockets opened by get_connection so far
    wire,           \* frames written on the socket opened last, in send order
    ch_calls,       \* CallMethod invocations so far
    ch_outcome,     \* what the last CallMethod returned or raised
    \* ---- SocketRpcChannel.parse_response over an RpcBufferedReader
    rd_pc,          \* "unbuilt" | "ready"
    rd_stream,      \* the bytes the NameNode put on the socket for the last call
    rd_reader,      \* the RpcBufferedReader of the last call, as parse_response left it
    rd_outcome,     \* what the last parse_response returned or raised
    rd_calls,       \* responses parsed so far
    rd_unread,      \* bytes the NameNode put on the open socket that no reader has taken
    \* ---- Client._read_file
    rf_pc,          \* "unbuilt" | "idle" | "block" (in the while loop of a block) | "done"
    rf_file,        \* the file at the NameNode and how its DataNodes serve it
    tail_only,      \* argument of _read_file
    tail_length,    \* argument of _read_file
    check_crc,      \* argument of _read_file
    blocks,         \* response.locations.blocks, as indexes of the file's blocks
    lastblock,      \* response.locations.lastBlock
    block_pos,      \* position of the for loop in blocks
    offset_in_block,
    failed_nodes,
    locations_queue, \* (priority, storage) entries
    rf_loads,       \* the loads yielded so far: [block, from, len, flipped]
    rf_requests,    \* every DataXceiverChannel made so far and what became of it
    rf_outcome,     \* "none" | "returned" | the exception _read_file raised
    \* ---- Client.delete
    dl_pc,          \* "unbuilt" | "idle" | "mkdir" | "test" | "rename": position in _handle_delete
    use_trash,      \* self.use_trash
    trash,          \* self.trash
    namespace,      \* the NameNode's namespace: [path, type] of every entry but the root
    clock,          \* time.time() * 1000, in whole milliseconds
    checkpoints,    \* trash checkpoints made so far
    dl_calls,       \* paths handed to _handle_delete so far
    dl_path,        \* arguments of the running (or last) _handle_delete
    dl_node,
    dl_recurse,
    trash_path,     \* locals of _handle_delete
    base_trash_path,
    original_path,
    dl_i,           \* i of `for i in range(0, 2)`
    dl_rpcs,        \* RPCs the running (or last) _handle_delete issued, and their replies
    dl_outcome,     \* "none" | "deleted" | "moved" | the exception _handle_delete raised
    \* ---- Client.rmdir, Client.touchz, Client.ls
    po_pc,          \* "unbuilt" | "idle" | "ls" | "delete": position in _handle_rmdir
    po_args,        \* arguments of the running (or last) operation
    po_out,         \* what the running (or last) operation has yielded
    po_rpcs,        \* RPCs of the running (or last) operation that change the namespace
    po_outcome,     \* "none" | "returned" | the exception the operation raised
    po_calls,       \* operations started so far
    local,          \* the files of the client's machine: [name, content]
    \* ---- glob.expand_path
    gl_pc,          \* "unbuilt" | "run" | "done" | "exhausted": position in expand_path
    gl_path,        \* the path expand_path was called with
    gl_frames,      \* the paths of the pending expand_path calls, the next call first
    gl_result       \* the paths the finished expand_path calls have returned

haVars == <<ha_pc, nn_count, ha_active, ha_gen, ha_calls, ha_kind, ha_attempts,
            ha_errors, ha_progress, ha_emitted, ha_outcome, ha_result, ha_succeeded>>

svcVars == <<svc_pc, services, active_service, reason, svc_calls, svc_index,
             svc_log, svc_outcome, svc_result>>

chVars == <<ch_pc, use_sasl, sock, call_id, conn_count, wire, ch_calls, ch_outcome>>

rdVars == <<rd_pc, rd_stream, rd_reader, rd_outcome, rd_calls, rd_unread>>

rfVars == <<rf_pc, rf_file, tail_only, tail_length, check_crc, blocks, lastblock, block_pos,
            offset_in_block, failed_nodes, locations_queue, rf_loads, rf_requests, rf_outcome>>

dlVars == <<dl_pc, use_trash, trash, namespace, clock, checkpoints, dl_calls, dl_path, dl_node,
            dl_recurse, trash_path, base_trash_path, original_path, dl_i, dl_rpcs, dl_outcome>>

poVars == <<po_pc, po_args, po_out, po_rpcs, po_outcome, po_calls, local>>

glVars == <<gl_pc, gl_path, gl_frames, gl_result>>

vars == <<haVars, svcVars, chVars, rdVars, rfVars, dlVars, poVars, glVars>>

(***************************************************************************)
(* Exceptions.  args0 is exception.args[0] as a sequence of tokens: a      *)
(* RequestError carries "\n".join([exceptionClassName, errorMsg])          *)
(* (channel.py handle_error).                                              *)
(***************************************************************************)
StandbyException == "org.apache.hadoop.ipc.StandbyException"
RetriableException == "org.apache.hadoop.ipc.RetriableException"
RpcNoSuchProtocolException == "org.apache.hadoop.ipc.RpcNoSuchProtocolException"
AccessControlException == "org.apache.hadoop.security.AccessControlException"

ExceptionClassNames ==
    {StandbyException, RetriableException, RpcNoSuchProtocolException, AccessControlException}

handle_error(exceptionClassName) ==
    [exc |-> "RequestError", args0 |-> <<exceptionClassName, "\n", "foo bar">>, errno |-> "None"]

RequestErrors == {handle_error(c) : c \in ExceptionClassNames}

SocketErrors ==
    { [exc |-> "socket.error", args0 |-> <<>>, errno |-> "ECONNREFUSED"],
      [exc |-> "socket.error", args0 |-> <<>>, errno |-> "EHOSTUNREACH"],
      [exc |-> "socket.error", args0 |-> <<>>, errno |-> "ECONNRESET"],
      [exc |-> "socket.timeout", args0 |-> <<>>, errno |-> "None"] }

OtherErrors == { [exc |-> "FileNotFoundException", args0 |-> <<"foobar">>, errno |-> "None"] }

Errors == RequestErrors \cup SocketErrors \cup OtherErrors

Range(s) == {s[i] : i \in 1..Len(s)}

\* str.startswith, on token sequences
startswith(s, prefix) ==
    /\ Len(s) >= Len(prefix)
    /\ SubSeq(s, 1, Len(prefix)) = prefix

\* isinstance(e, socket.error): socket.timeout is a subclass of socket.error
IsSocketError(e) == e.exc \in {"socket.error", "socket.timeout"}

\* The exception as the caller of the wrapped method sees it
Raised(e) == IF e.exc = "socket.timeout" THEN "socket.error" ELSE e.exc

(***************************************************************************)
(* HAClient                                                                *)
(***************************************************************************)

\* HAClient.__handle_request_error: "pass" (go on to self.namenode.next()) or re-raise
HAClient_handle_request_error(exception) ==
    IF startswith(exception.args0, <<StandbyException>>)
    THEN "pass"
    ELSE "raise"

\* HAClient.__handle_socket_error
HAClient_handle_socket_error(exception) ==
    IF exception.errno \in {"ECONNREFUSED", "EHOSTUNREACH"}
    THEN "pass"
    ELSE IF exception.exc = "socket.timeout"
         THEN "pass"
         ELSE "raise"

\* The except clauses of wrapped() in _ha_return_method / _ha_gen_method
HAClient_except(e) ==
    IF e.exc = "RequestError" THEN HAClient_handle_request_error(e)
    ELSE IF IsSocketError(e) THEN HAClient_handle_socket_error(e)
    ELSE "raise"

\* self.namenode.next(): resume the _switch_namenode generator.
\*   a suspended generator binds the next namenode of the list, or, after the
\*   last one, runs the for-else and raises OutOfNNException (which finishes it);
\*   a finished generator raises StopIteration.
switch_namenode(active, gen, n) ==
    IF gen = "finished"
    THEN [active |-> active, gen |-> gen, raises |-> "StopIteration"]
    ELSE IF active < n
         THEN [active |-> active + 1, gen |-> "suspended", raises |-> "nothing"]
         ELSE [active |-> active, gen |-> "finished", raises |-> "OutOfNNException"]

NoResult == [nn |-> 0, val |-> "nothing"]

\* No HAClient has been constructed
HAOff ==
    /\ ha_pc = "unbuilt"
    /\ nn_count = 0
    /\ ha_active = 0
    /\ ha_gen = "suspended"
    /\ ha_calls = 0
    /\ ha_kind = "return"
    /\ ha_attempts = <<>>
    /\ ha_errors = <<>>
    /\ ha_progress = 0
    /\ ha_emitted = <<>>
    /\ ha_outcome = "none"
    /\ ha_result = NoResult
    /\ ha_succeeded = FALSE

\* HAClient.__init__(namenodes): the first self.namenode.next() binds namenodes[0]
HAInit ==
    /\ ha_pc = "idle"
    /\ nn_count \in 1..MaxNamenodes
    /\ ha_active = 1
    /\ ha_gen = "suspended"
    /\ ha_calls = 0
    /\ ha_kind = "return"
    /\ ha_attempts = <<>>
    /\ ha_errors = <<>>
    /\ ha_progress = 0
    /\ ha_emitted = <<>>
    /\ ha_outcome = "none"
    /\ ha_result = NoResult
    /\ ha_succeeded = FALSE

nonHA == <<svcVars, chVars, rdVars, rfVars, dlVars, poVars, glVars>>

\* The caller invokes a public (wrapped) method of the client.
HACall(kind) ==
    /\ ha_pc \in {"idle", "done"}
    /\ ha_calls < MaxCalls
    /\ ha_pc' = "running"
    /\ ha_calls' = ha_calls + 1
    /\ ha_kind' = kind
    /\ ha_attempts' = <<>>
    /\ ha_errors' = <<>>
    /\ ha_progress' = 0
    /\ ha_emitted' = <<>>
    /\ ha_outcome' = "none"
    /\ ha_result' = NoResult
    /\ ha_succeeded' = (ha_succeeded \/ (ha_pc = "done" /\ ha_outcome \in {"returned", "finished"}
                                           /\ Len(ha_attempts) > Len(ha_errors)))
    /\ UNCHANGED <<nn_count, ha_active, ha_gen>>
    /\ UNCHANGED nonHA

\* A run of func is in progress iff the last run started has not raised.
InAttempt == Len(ha_attempts) > Len(ha_errors)

\* What wrapped() does with an exception e raised by func; stopiter is how a
\* StopIteration out of self.namenode.next() reaches the caller.
HAHandle(e, stopiter) ==
    LET sw == switch_namenode(ha_active, ha_gen, nn_count) IN
    IF HAClient_except(e) = "raise"
    THEN /\ ha_pc' = "done"
         /\ ha_outcome' = Raised(e)
         /\ UNCHANGED <<ha_active, ha_gen>>
    ELSE /\ ha_active' = sw.active
         /\ ha_gen' = sw.gen
         /\ IF sw.raises = "nothing"
            THEN /\ ha_pc' = "running"
                 /\ ha_outcome' = "none"
            ELSE /\ ha_pc' = "done"
                 /\ ha_outcome' = IF sw.raises = "StopIteration" THEN stopiter ELSE sw.raises

\* _ha_return_method.wrapped: one pass of the while loop, func returns
HAReturnOk(v) ==
    /\ ha_pc = "running" /\ ha_kind = "return"
    /\ ha_attempts' = Append(ha_attempts, ha_active)
    /\ ha_pc' = "done"
    /\ ha_outcome' = "returned"
    /\ ha_result' = [nn |-> ha_active, val |-> v]
    /\ UNCHANGED <<nn_count, ha_active, ha_gen, ha_calls, ha_kind, ha_errors,
                   ha_progress, ha_emitted, ha_succeeded>>
    /\ UNCHANGED nonHA

\* _ha_return_method.wrapped: one pass of the while loop, func raises e
HAReturnError(e) ==
    /\ ha_pc = "running" /\ ha_kind = "return"
    /\ ha_attempts' = Append(ha_attempts, ha_active)
    /\ ha_errors' = Append(ha_errors, e)
    /\ HAHandle(e, "StopIteration")
    /\ UNCHANGED <<nn_count, ha_calls, ha_kind, ha_progress, ha_emitted, ha_result, ha_succeeded>>
    /\ UNCHANGED nonHA

\* The attempt log after the step: the first next() of a fresh run of func
\* issues its first RPC.
AttemptsNow == IF InAttempt THEN ha_attempts ELSE Append(ha_attempts, ha_active)

\* _ha_gen_method.wrapped: results.next() yields an item
HAGenYield ==
    /\ ha_pc = "running" /\ ha_kind = "gen"
    /\ ha_progress < MaxItems
    /\ ha_attempts' = AttemptsNow
    /\ ha_progress' = ha_progress + 1
    /\ ha_emitted' = Append(ha_emitted, ha_progress + 1)
    /\ UNCHANGED <<ha_pc, nn_count, ha_active, ha_gen, ha_calls, ha_kind, ha_errors,
                   ha_outcome, ha_result, ha_succeeded>>
    /\ UNCHANGED nonHA

\* _ha_gen_method.wrapped: results.next() raises StopIteration (func is
\* exhausted), which ends the wrapping generator as well
HAGenFinish ==
    /\ ha_pc = "running" /\ ha_kind = "gen"
    /\ ha_progress = MaxItems
    /\ ha_attempts' = AttemptsNow
    /\ ha_pc' = "done"
    /\ ha_outcome' = "finished"
    /\ UNCHANGED <<nn_count, ha_active, ha_gen, ha_calls, ha_kind, ha_errors,
                   ha_progress, ha_emitted, ha_result, ha_succeeded>>
    /\ UNCHANGED nonHA

\* _ha_gen_method.wrapped: results.next() raises e.  A StopIteration raised by
\* self.namenode.next() inside the generator ends it like a normal return.
HAGenError(e) ==
    /\ ha_pc = "running" /\ ha_kind = "gen"
    /\ ha_attempts' = AttemptsNow
    /\ ha_errors' = Append(ha_errors, e)
    /\ ha_progress' = 0
    /\ HAHandle(e, "finished")
    /\ UNCHANGED <<nn_count, ha_calls, ha_kind, ha_emitted, ha_result, ha_succeeded>>
    /\ UNCHANGED nonHA

HANext ==
    \/ \E kind \in {"return", "gen"} : HACall(kind)
    \/ \E v \in {"payload", "None"} : HAReturnOk(v)
    \/ \E e \in Errors : HAReturnError(e)
    \/ HAGenYield
    \/ HAGenFinish
    \/ \E e \in Errors : HAGenError(e)

(***************************************************************************)
(* HARpcService                                                            *)
(***************************************************************************)

NoError == [exc |-> "none", args0 |-> <<>>, errno |-> "None"]

\* What a service answered to one RPC: a response (val: "payload", or "None"
\* when parse_response returns None) or an exception
Reply(s, ok, val, err) == [svc |-> s, ok |-> ok, val |-> val, err |-> err]

\* A faulty variant of _handle_request_error: it behaves as if else_raise were False
HARpcService_handle_request_error_noraise(exception) ==
    IF startswith(exception.args0, <<StandbyException>>)
    THEN [do |-> "pass", reason |-> "standby"]
    ELSE IF startswith(exception.args0, <<RpcNoSuchProtocolException>>)
         THEN [do |-> "pass", reason |-> "wrong protocol <verify port>"]
         ELSE [do |-> "pass", reason |-> "namenode error"]

\* HARpcService._handle_request_error with else_raise=True
HARpcService_handle_request_error(exception) ==
    IF startswith(exception.args0, <<StandbyException>>)
    THEN [do |-> "pass", reason |-> "standby"]
    ELSE IF startswith(exception.args0, <<RpcNoSuchProtocolException>>)
         THEN [do |-> "pass", reason |-> "wrong protocol <verify port>"]
         ELSE [do |-> "raise", reason |-> "namenode error"]

\* HARpcService._handle_socket_error with else_raise=True; RpcService.call has
\* reset the controller, so the reason it leaves alone is None
HARpcService_handle_socket_error(exception) ==
    IF exception.errno \in {"ECONNREFUSED", "EHOSTUNREACH"}
    THEN [do |-> "pass", reason |-> "not available - possibly down"]
    ELSE IF exception.exc = "socket.timeout"
         THEN [do |-> "pass", reason |-> "request timeout"]
         ELSE [do |-> "raise", reason |-> "None"]

\* HARpcService._try_call_service when service.call raises e
HARpcService_except(e) ==
    IF e.exc = "RequestError" THEN HARpcService_handle_request_error(e)
    ELSE IF IsSocketError(e) THEN HARpcService_handle_socket_error(e)
    ELSE [do |-> "raise", reason |-> "None"]

\* _try_call_service returns a result that call() takes for a success
result_is_not_None(val) == val # "None"

SelectSeq2(s, x) == SelectSeq(s, LAMBDA y : y # x)

\* A faulty variant of the reordering: the failing service is filtered out and
\* never appended again
move_to_end_drop(svcs, a) == SelectSeq2(svcs, a)

\* _try_active_service: put the failing active service at the end of the tuple
move_to_end(svcs, a) == Append(SelectSeq2(svcs, a), a)

\* No HARpcService has been constructed
SvcOff ==
    /\ svc_pc = "unbuilt"
    /\ services = <<>>
    /\ active_service = 0
    /\ reason = <<>>
    /\ svc_calls = 0
    /\ svc_index = 0
    /\ svc_log = <<>>
    /\ svc_outcome = "none"
    /\ svc_result = NoResult

\* HARpcService.__init__(service_stub_class, namenodes)
SvcInit ==
    /\ svc_pc = "idle"
    /\ \E n \in 1..MaxNamenodes :
          /\ services = [i \in 1..n |-> i]
          /\ reason = [i \in 1..n |-> "None"]
    /\ active_service = 0
    /\ svc_calls = 0
    /\ svc_index = 0
    /\ svc_log = <<>>
    /\ svc_outcome = "none"
    /\ svc_result = NoResult

nonSvc == <<haVars, chVars, rdVars, rfVars, dlVars, poVars, glVars>>

\* HARpcService.call(method, request) is entered: _try_active_service returns
\* None at once when there is no active service
SvcCall ==
    /\ svc_pc \in {"idle", "done"}
    /\ svc_calls < MaxCalls
    /\ svc_calls' = svc_calls + 1
    /\ svc_pc' = IF active_service # 0 THEN "active" ELSE "iter"
    /\ svc_index' = 1
    /\ svc_log' = <<>>
    /\ svc_outcome' = "none"
    /\ svc_result' = NoResult
    /\ UNCHANGED <<services, active_service, reason>>
    /\ UNCHANGED nonSvc

\* _try_active_service got None from _try_call_service
SvcActiveFailed ==
    /\ services' = move_to_end(services, active_service)
    /\ active_service' = 0
    /\ svc_pc' = "iter"
    /\ svc_index' = 1
    /\ UNCHANGED <<svc_outcome, svc_result>>

\* _try_iterative_service_calls got None from _try_call_service: continue, and
\* after the last service call() raises OutOfNNException
SvcIterFailed ==
    /\ svc_index' = svc_index + 1
    /\ IF svc_index = Len(services)
       THEN svc_pc' = "done" /\ svc_outcome' = "OutOfNNException"
       ELSE svc_pc' = "iter" /\ svc_outcome' = "none"
    /\ UNCHANGED <<services, active_service, svc_result>>

\* _try_active_service: the RPC on self.active_service is answered
SvcTryActiveOk(val) ==
    /\ svc_pc = "active"
    /\ svc_log' = Append(svc_log, Reply(active_service, TRUE, val, NoError))
    /\ reason' = [reason EXCEPT ![active_service] = "None"]
    /\ IF result_is_not_None(val)
       THEN /\ svc_pc' = "done"
            /\ svc_outcome' = "returned"
            /\ svc_result' = [nn |-> active_service, val |-> val]
            /\ UNCHANGED <<services, active_service, svc_index>>
       ELSE SvcActiveFailed
    /\ UNCHANGED svc_calls
    /\ UNCHANGED nonSvc

\* _try_active_service: the RPC on self.active_service raises e
SvcTryActiveError(e) ==
    /\ svc_pc = "active"
    /\ svc_log' = Append(svc_log, Reply(active_service, FALSE, "nothing", e))
    /\ reason' = [reason EXCEPT ![active_service] = HARpcService_except(e).reason]
    /\ IF HARpcService_except(e).do = "raise"
       THEN /\ svc_pc' = "done"
            /\ svc_outcome' = Raised(e)
            /\ UNCHANGED <<services, active_service, svc_index, svc_result>>
       ELSE SvcActiveFailed
    /\ UNCHANGED svc_calls
    /\ UNCHANGED nonSvc

\* _try_iterative_service_calls: the RPC on the next service is answered
SvcTryIterOk(val) ==
    /\ svc_pc = "iter"
    /\ svc_log' = Append(svc_log, Reply(services[svc_index], TRUE, val, NoError))
    /\ reason' = [reason EXCEPT ![services[svc_index]] = "None"]
    /\ IF result_is_not_None(val)
       THEN /\ active_service' = services[svc_index]
            /\ svc_pc' = "done"
            /\ svc_outcome' = "returned"
            /\ svc_result' = [nn |-> services[svc_index], val |-> val]
            /\ UNCHANGED <<services, svc_index>>
       ELSE SvcIterFailed
    /\ UNCHANGED svc_calls
    /\ UNCHANGED nonSvc

\* _try_iterative_service_calls: the RPC on the next service raises e
SvcTryIterError(e) ==
    /\ svc_pc = "iter"
    /\ svc_log' = Append(svc_log, Reply(services[svc_index], FALSE, "nothing", e))
    /\ reason' = [reason EXCEPT ![services[svc_index]] = HARpcService_except(e).reason]
    /\ IF HARpcService_except(e).do = "raise"
       THEN /\ svc_pc' = "done"
            /\ svc_outcome' = Raised(e)
            /\ UNCHANGED <<services, active_service, svc_index, svc_result>>
       ELSE SvcIterFailed
    /\ UNCHANGED svc_calls
    /\ UNCHANGED nonSvc

SvcNext ==
    \/ SvcCall
    \/ \E val \in {"payload", "None"} : SvcTryActiveOk(val)
    \/ \E e \in Errors : SvcTryActiveError(e)
    \/ \E val \in {"payload", "None"} : SvcTryIterOk(val)
    \/ \E e \in Errors : SvcTryIterError(e)

(***************************************************************************)
(* SocketRpcChannel                                                        *)
(*                                                                         *)
(* call_id is a Python integer; RpcRequestHeaderProto.callId is a sint32,  *)
(* far beyond the number of calls made here.                               *)
(***************************************************************************)

\* A faulty variant of create_rpc_request_header: no special case for -3
next_call_id_plain(c) == c + 1

\* create_rpc_request_header: the value self.call_id takes after the header
\* has been given the current one
next_call_id(c) == IF c = -3 THEN 0 ELSE c + 1

\* close_socket
close_socket(sk) == "None"

\* A faulty variant of CallMethod: no "except RequestError" clause
CallMethod_except_all(exc, sk) == close_socket(sk)

\* The except clauses of CallMethod: RequestError leaves the socket alone,
\* every other Exception goes through close_socket
CallMethod_except(exc, sk) ==
    IF exc = "RequestError" THEN sk ELSE close_socket(sk)

\* A frame on the wire: "hrpc" (magic, version, service class, auth protocol),
\* "context" (length, RpcRequestHeaderProto, IpcConnectionContextProto) or
\* "request" (length, RpcRequestHeaderProto, RequestHeaderProto, request);
\* complete is FALSE when a write failed after the RpcRequestHeaderProto
Frame(f, id, complete) == [frame |-> f, callId |-> id, complete |-> complete]

\* Where a CallMethod stops, in the order of its statements:
\*   validate      validate_request raises
\*   connect       get_connection: sock.connect raises
\*   hrpc          get_connection: a write of the 7 header bytes raises
\*   sasl          get_connection: SaslRpcClient is a name local to __init__
\*                 (the import at line 179), so line 236 raises NameError
\*   context       get_connection: a write of the context frame raises
\*   send          send_rpc_message: a write of the request frame raises
\*   recv          recv_rpc_message / parse_response: reading or decoding raises
\*   error_status  parse_response: header.status != 0, handle_error raises RequestError
\*   ok            parse_response returns a response, or None
Stops == {"validate", "connect", "hrpc", "sasl", "context", "send", "recv", "error_status", "ok"}

\* What a failing socket operation or a failing decode raises
IOExceptions == {"socket.error", "socket.timeout", "DecodeError"}

\* No SocketRpcChannel has been constructed
ChanOff ==
    /\ ch_pc = "unbuilt"
    /\ use_sasl = FALSE
    /\ sock = "None"
    /\ call_id = 0
    /\ conn_count = 0
    /\ wire = <<>>
    /\ ch_calls = 0
    /\ ch_outcome = "none"

\* SocketRpcChannel.__init__
ChanInit ==
    /\ ch_pc = "ready"
    /\ use_sasl \in BOOLEAN
    /\ sock = "None"
    /\ call_id = -3
    /\ conn_count = 0
    /\ wire = <<>>
    /\ ch_calls = 0
    /\ ch_outcome = "none"

nonChan == <<haVars, svcVars, rdVars, rfVars, dlVars, poVars, glVars>>

\* The body of CallMethod(method, controller, request, response_class, done),
\* stopping at stop; exc is the exception of a failing socket operation,
\* written tells whether the RpcRequestHeaderProto of the failing frame
\* reached the socket, val is what parse_response returns
call_method(stop, exc, written, val) ==
    LET connects == sock = "None" /\ stop # "validate"
        sock1 == IF connects THEN "open" ELSE sock
        wire0 == IF connects THEN <<>> ELSE wire
        wire1 == IF connects /\ stop \notin {"connect", "hrpc"}
                 THEN Append(wire0, Frame("hrpc", 0, TRUE))
                 ELSE wire0
        has_context == connects /\ stop \notin {"connect", "hrpc", "sasl"}
        call_id1 == IF has_context THEN next_call_id(call_id) ELSE call_id
        wire2 == IF has_context /\ (stop # "context" \/ written)
                 THEN Append(wire1, Frame("context", call_id, stop # "context"))
                 ELSE wire1
        has_request == stop \in {"send", "recv", "error_status", "ok"}
        call_id2 == IF has_request THEN next_call_id(call_id1) ELSE call_id1
        wire3 == IF has_request /\ (stop # "send" \/ written)
                 THEN Append(wire2, Frame("request", call_id1, stop # "send"))
                 ELSE wire2
        outcome == CASE stop = "validate" -> "Exception"
                     [] stop = "sasl" -> "NameError"
                     [] stop \in {"connect", "hrpc", "context", "send", "recv"} -> exc
                     [] stop = "error_status" -> "RequestError"
                     [] OTHER -> val
    IN  /\ ch_pc = "ready"
        /\ ch_calls < MaxChanCalls
        /\ stop \in {"connect", "hrpc", "sasl", "context"} => sock = "None"
        /\ stop = "sasl" <=> (use_sasl /\ sock = "None" /\ stop \notin {"validate", "connect", "hrpc"})
        /\ ch_calls' = ch_calls + 1
        /\ conn_count' = IF connects THEN conn_count + 1 ELSE conn_count
        /\ call_id' = call_id2
        /\ wire' = wire3
        /\ ch_outcome' = outcome
        /\ sock' = IF stop = "ok" THEN sock1 ELSE CallMethod_except(outcome, sock1)
        /\ UNCHANGED <<ch_pc, use_sasl>>

\* A CallMethod whose reply is not looked at byte by byte
CallMethod(stop, exc, written, val) ==
    /\ call_method(stop, exc, written, val)
    /\ UNCHANGED nonChan

\* The call raises before anything is read from the socket
ChanCallFails ==
    \E stop \in {"validate", "sasl"} : CallMethod(stop, "Exception", FALSE, "None")

\* A socket operation raises
ChanCallIOError ==
    \E stop \in {"connect", "hrpc", "context", "send", "recv"}, exc \in IOExceptions, written \in BOOLEAN :
        /\ written => stop \in {"context", "send"}
        /\ CallMethod(stop, exc, written, "None")

\* The NameNode answers with an error status
ChanCallRequestError == CallMethod("error_status", "Exception", FALSE, "None")

\* The NameNode answers with SUCCESS
ChanCallOk == \E val \in {"response", "None"} : CallMethod("ok", "Exception", FALSE, val)

ChanNext ==
    \/ ChanCallFails
    \/ ChanCallIOError
    \/ ChanCallRequestError
    \/ ChanCallOk

(***************************************************************************)
(* SocketRpcChannel.parse_response over an RpcBufferedReader               *)
(* (snakebite/channel.py).  Bytes are integers in 0..255.                  *)
(***************************************************************************)
MaxParses == 2                    \* responses parsed on one channel
HeaderSizes == {4, 5, 127, 128}   \* sizes of a serialized RpcResponseHeaderProto
PayloadSizes == {0, 1, 127, 128}  \* sizes of a serialized response message
MaxVarintBytes == 4               \* longest varint the model decodes

Min(a, b) == IF a < b THEN a ELSE b

Max(a, b) == IF a > b THEN a ELSE b

\* Python's s[i:j] for 0 <= i
Slice(s, i, j) == SubSeq(s, i + 1, Min(j, Len(s)))

\* struct.pack("!I", n)
pack_I(n) == <<(n \div 16777216) % 256, (n \div 65536) % 256, (n \div 256) % 256, n % 256>>

\* struct.unpack("!I", b)[0]
unpack_I(b) == b[1] * 16777216 + b[2] * 65536 + b[3] * 256 + b[4]

\* encoder._VarintBytes(n)
RECURSIVE VarintBytes(_)
VarintBytes(n) ==
    IF n < 128 THEN <<n>> ELSE <<128 + (n % 128)>> \o VarintBytes(n \div 128)

\* decoder._DecodeVarint32(buffer, pos): (value, new pos), or IndexError when
\* the buffer ends inside the varint
RECURSIVE DecodeVarint32From(_, _, _, _)
DecodeVarint32From(buffer, pos, result, mult) ==
    IF pos >= Len(buffer) \/ pos >= MaxVarintBytes
    THEN [ok |-> FALSE, value |-> 0, pos |-> pos]
    ELSE LET b == buffer[pos + 1] IN
         IF b < 128
         THEN [ok |-> TRUE, value |-> result + b * mult, pos |-> pos + 1]
         ELSE DecodeVarint32From(buffer, pos + 1, result + (b % 128) * mult, mult * 128)

DecodeVarint32(buffer) == DecodeVarint32From(buffer, 0, 0, 1)

\* RpcBufferedReader.__init__ / reset: taken counts the bytes received from
\* the socket, raised tells that the reader raised
RpcBufferedReader == [buffer |-> <<>>, pos |-> -1, taken |-> 0, raised |-> FALSE]

\* RpcBufferedReader._buffer_bytes(n): the socket hands out the bytes of stream
\* in order; once the stream has ended every recv returns "" and the loop
\* gives up
buffer_bytes(r, n, stream) ==
    LET got == Min(n, Len(stream) - r.taken) IN
    [r EXCEPT !.buffer = r.buffer \o SubSeq(stream, r.taken + 1, r.taken + got),
              !.taken = r.taken + got,
              !.raised = got < n]

\* RpcBufferedReader.read(n): [r |-> the reader afterwards, ret |-> the bytes]
read(r, n, stream) ==
    LET bytes_wanted == n - Len(r.buffer) + r.pos + 1
        r1 == IF bytes_wanted > 0 THEN buffer_bytes(r, bytes_wanted, stream) ELSE r
        end_pos == r.pos + n
    IN  [r |-> [r1 EXCEPT !.pos = end_pos],
         ret |-> Slice(r1.buffer, r.pos + 1, end_pos + 1)]

\* A faulty variant of rewind that drops the bytes it steps back over
rewind_discard(r, places) ==
    [r EXCEPT !.pos = r.pos - places,
              !.buffer = SubSeq(r.buffer, 1, Len(r.buffer) - places)]

\* RpcBufferedReader.rewind(places)
rewind(r, places) == [r EXCEPT !.pos = r.pos - places]

\* A faulty variant of get_delimited_message_bytes that does not rewind
get_delimited_message_bytes_norewind(r, nr, stream) ==
    LET peek == read(r, nr, stream)
        d == DecodeVarint32(peek.ret)
        body == read(peek.r, d.value, stream)
    IN  IF peek.r.raised \/ ~d.ok
        THEN [r |-> peek.r, ok |-> FALSE, total_len |-> 0, message_bytes |-> <<>>]
        ELSE [r |-> body.r, ok |-> ~body.r.raised,
              total_len |-> d.value + d.pos, message_bytes |-> body.ret]

\* get_delimited_message_bytes(byte_stream, nr)
get_delimited_message_bytes(r, nr, stream) ==
    LET peek == read(r, nr, stream)
        d == DecodeVarint32(peek.ret)
        delimiter_bytes == nr - d.pos
        body == read(rewind(peek.r, delimiter_bytes), d.value, stream)
    IN  IF peek.r.raised \/ ~d.ok
        THEN [r |-> peek.r, ok |-> FALSE, total_len |-> 0, message_bytes |-> <<>>]
        ELSE [r |-> body.r, ok |-> ~body.r.raised,
              total_len |-> d.value + d.pos, message_bytes |-> body.ret]

\* RpcResponseHeaderProto.ParseFromString(header_bytes).status: the model's
\* header carries its status in the first byte
header_status(header_bytes) == header_bytes[1]

\* A faulty variant of parse_response that returns after a SUCCESS header
\* without taking the response message from the socket
parse_response_header_only(stream) ==
    LET len_bytes == read(RpcBufferedReader, 4, stream)
        total_length == unpack_I(len_bytes.ret)
        h == get_delimited_message_bytes(len_bytes.r, 4, stream)
    IN  IF len_bytes.r.raised THEN [outcome |-> "Exception", r |-> len_bytes.r]
        ELSE IF ~h.ok THEN [outcome |-> "Exception", r |-> h.r]
        ELSE IF header_status(h.message_bytes) # 0 THEN [outcome |-> "RequestError", r |-> h.r]
        ELSE IF h.total_len >= total_length THEN [outcome |-> "None", r |-> h.r]
        ELSE [outcome |-> "response", r |-> h.r]

\* SocketRpcChannel.parse_response(byte_stream, response_class):
\* outcome is "response" | "None" | "RequestError" | "Exception"
parse_response(stream) ==
    LET len_bytes == read(RpcBufferedReader, 4, stream)
        total_length == unpack_I(len_bytes.ret)
        h == get_delimited_message_bytes(len_bytes.r, 4, stream)
        p == get_delimited_message_bytes(h.r, total_length - h.total_len, stream)
    IN  IF len_bytes.r.raised THEN [outcome |-> "Exception", r |-> len_bytes.r]
        ELSE IF ~h.ok THEN [outcome |-> "Exception", r |-> h.r]
        ELSE IF header_status(h.message_bytes) # 0 THEN [outcome |-> "RequestError", r |-> h.r]
        ELSE IF h.total_len >= total_length THEN [outcome |-> "None", r |-> h.r]
        ELSE IF ~p.ok THEN [outcome |-> "Exception", r |-> p.r]
        ELSE IF Len(p.message_bytes) > 0 THEN [outcome |-> "response", r |-> p.r]
        ELSE [outcome |-> "None", r |-> p.r]

\* ---- the NameNode's side of the socket

Filler(n, b) == [i \in 1..n |-> b]

\* varint length + message
Delimited(message) == VarintBytes(Len(message)) \o message

\* A serialized RpcResponseHeaderProto of hsize bytes with the given status
ResponseHeader(hsize, status) == <<status>> \o Filler(hsize - 1, 8)

\* The reply to one call: a 4 byte length, the delimited header and, after a
\* SUCCESS header, the delimited response message unless absent
RpcResponse(hsize, status, psize, absent) ==
    LET body == Delimited(ResponseHeader(hsize, status))
                  \o (IF status # 0 \/ absent THEN <<>> ELSE Delimited(Filler(psize, 9)))
    IN  pack_I(Len(body)) \o body

RpcResponses ==
    {RpcResponse(hsize, status, psize, absent) :
        hsize \in HeaderSizes, status \in {0, 1}, psize \in PayloadSizes, absent \in BOOLEAN}

\* No response has been parsed
RdOff ==
    /\ rd_pc = "unbuilt"
    /\ rd_stream = <<>>
    /\ rd_reader = RpcBufferedReader
    /\ rd_outcome = "none"
    /\ rd_calls = 0
    /\ rd_unread = <<>>

RdInit ==
    /\ rd_pc = "ready"
    /\ rd_stream = <<>>
    /\ rd_reader = RpcBufferedReader
    /\ rd_outcome = "none"
    /\ rd_calls = 0
    /\ rd_unread = <<>>

nonRd == <<haVars, svcVars, chVars, rfVars, dlVars, poVars, glVars>>

\* recv_rpc_message and parse_response of one call, the NameNode having put
\* the first cut bytes of response on the socket before the connection ended
ParseResponse(response, cut) ==
    /\ rd_pc = "ready"
    /\ rd_calls < MaxParses
    /\ LET stream == SubSeq(response, 1, cut)
           parsed == parse_response(stream)
       IN  /\ rd_stream' = stream
           /\ rd_reader' = parsed.r
           /\ rd_outcome' = parsed.outcome
    /\ rd_calls' = rd_calls + 1
    /\ UNCHANGED <<rd_pc, rd_unread>>
    /\ UNCHANGED nonRd

\* The whole reply arrives
ParseWhole == \E response \in RpcResponses : ParseResponse(response, Len(response))

\* The connection ends inside the reply
ParseTruncated ==
    \E response \in RpcResponses, cut \in {2, 6, 9} :
        /\ cut < Len(response)
        /\ ParseResponse(response, cut)

RdNext ==
    \/ ParseWhole
    \/ ParseTruncated

\* ---- CallMethod with the bytes of its reply

\* What the RpcBufferedReader of a call finds on the socket: the bytes earlier
\* replies left unread if the socket was kept, then the bytes that arrive for
\* this request
OnSocket(arrived) == (IF sock = "None" THEN <<>> ELSE rd_unread) \o arrived

\* CallMethod, the NameNode having put the first cut bytes of response on the
\* socket as its reply: recv_rpc_message wraps the socket in a new
\* RpcBufferedReader and parse_response reads from it
CallMethodReply(response, cut) ==
    /\ rd_pc = "ready"
    /\ rd_calls < MaxParses
    /\ \E parsed \in {parse_response(OnSocket(SubSeq(response, 1, cut)))} :
          LET arrived == SubSeq(response, 1, cut)
              stream == OnSocket(arrived)
              stop == CASE parsed.outcome = "Exception" -> "recv"
                        [] parsed.outcome = "RequestError" -> "error_status"
                        [] OTHER -> "ok"
          IN  /\ call_method(stop, "Exception", FALSE, parsed.outcome)
              /\ rd_stream' = arrived
              /\ rd_reader' = parsed.r
              /\ rd_outcome' = parsed.outcome
              /\ rd_calls' = rd_calls + 1
              /\ rd_unread' = SubSeq(stream, parsed.r.taken + 1, Len(stream))
    /\ UNCHANGED rd_pc
    /\ UNCHANGED <<haVars, svcVars, rfVars, dlVars, poVars, glVars>>

\* The whole reply arrives
CallMethodWhole == \E response \in RpcResponses : CallMethodReply(response, Len(response))

\* The connection ends inside the reply
CallMethodTruncated ==
    \E response \in RpcResponses, cut \in {2, 6, 9} :
        /\ cut < Len(response)
        /\ CallMethodReply(response, cut)

CallReplyNext ==
    \/ ChanCallFails
    \/ ChanCallIOError
    \/ CallMethodWhole
    \/ CallMethodTruncated

(***************************************************************************)
(* RpcBufferedReader over a socket that hands out its bytes in pieces      *)
(* (snakebite/channel.py)                                                  *)
(***************************************************************************)
MAX_READ_ATTEMPTS == 100
MaxReaderOps == 3                 \* read / rewind / reset calls on one reader
ReadSizes == {0, 1, 4, 100, 101}  \* n of read(n)
RecvSizes == {1, 50, 200}         \* most bytes one socket.recv returns
StreamLengths == {0, 3, 120, 250} \* bytes the peer sends before it goes silent

\* socket.recv(to_read): up to chunk of the bytes of stream not yet taken, ""
\* when the peer has sent no more
recv(stream, taken, to_read, chunk) ==
    SubSeq(stream, taken + 1, taken + Min(Min(chunk, to_read), Len(stream) - taken))

\* The end of RpcBufferedReader.read(n), entered at position pos:
\*   [r: the reader afterwards, ret: the bytes returned]
read_end(r, pos, n) ==
    LET end_pos == pos + n
    IN  [r |-> [r EXCEPT !.pos = end_pos], ret |-> Slice(r.buffer, pos + 1, end_pos + 1)]

\* RpcBufferedReader.reset()
reset(r) == [r EXCEPT !.buffer = <<>>, !.pos = -1]

\* The bytes a peer sends
Stream(len) == [i \in 1..len |-> i % 256]

\* A new RpcBufferedReader on a connected socket
ReaderInit ==
    /\ rd_pc = "reader"
    /\ rd_stream \in {Stream(len) : len \in StreamLengths}
    /\ rd_reader = RpcBufferedReader
    /\ rd_outcome = "none"
    /\ rd_calls = 0
    /\ rd_unread = <<>>

\* What a call did: the call, its argument, the reader before it, the bytes
\* returned, the socket reads made and how many of them returned nothing;
\* loop holds the locals of _buffer_bytes while read is inside it
Did(op, n, ret, recvs, zero, loop) ==
    [op |-> op, n |-> n, before |-> rd_reader, ret |-> ret,
     recvs |-> recvs, zero |-> zero, loop |-> loop]

NoLoop == [n |-> 0, to_read |-> 0, attempt |-> 0, bytes_read |-> 0, chunk |-> 0]

ReaderCan ==
    /\ rd_pc = "reader"
    /\ rd_calls < MaxReaderOps
    /\ ~rd_reader.raised

\* byte_stream.read(n), up to the first socket.recv if it needs one; chunk is
\* the most this socket hands out per recv
ReaderRead(n, chunk) ==
    /\ ReaderCan
    /\ LET bytes_wanted == n - Len(rd_reader.buffer) + rd_reader.pos + 1
           out == read_end(rd_reader, rd_reader.pos, n)
       IN  IF bytes_wanted > 0
           THEN /\ rd_pc' = "recv"
                /\ rd_reader' = rd_reader
                /\ rd_outcome' = Did("read", n, <<>>, 0, 0,
                                     [n |-> bytes_wanted, to_read |-> bytes_wanted,
                                      attempt |-> 0, bytes_read |-> 0, chunk |-> chunk])
           ELSE /\ rd_pc' = "reader"
                /\ rd_reader' = out.r
                /\ rd_outcome' = Did("read", n, out.ret, 0, 0, NoLoop)
    /\ rd_calls' = rd_calls + 1
    /\ UNCHANGED <<rd_stream, rd_unread>>
    /\ UNCHANGED nonRd

\* One turn of the for loop of _buffer_bytes: a socket.recv; when to_read
\* reaches 0 read goes on to its end
ReaderRecv ==
    /\ rd_pc = "recv"
    /\ rd_outcome.loop.attempt < MAX_READ_ATTEMPTS
    /\ LET loop == rd_outcome.loop
           bytes_read == recv(rd_stream, rd_reader.taken, loop.to_read, loop.chunk)
           to_read == loop.to_read - Len(bytes_read)
           r1 == [rd_reader EXCEPT !.buffer = rd_reader.buffer \o bytes_read,
                                   !.taken = rd_reader.taken + Len(bytes_read)]
           out == read_end(r1, rd_outcome.before.pos, rd_outcome.n)
           zero == IF bytes_read = <<>> THEN rd_outcome.zero + 1 ELSE rd_outcome.zero
       IN  IF to_read = 0
           THEN /\ rd_pc' = "reader"
                /\ rd_reader' = out.r
                /\ rd_outcome' = [rd_outcome EXCEPT !.ret = out.ret, !.recvs = @ + 1,
                                                    !.zero = zero, !.loop = NoLoop]
           ELSE /\ rd_pc' = "recv"
                /\ rd_reader' = r1
                /\ rd_outcome' = [rd_outcome EXCEPT !.recvs = @ + 1, !.zero = zero,
                                      !.loop = [loop EXCEPT !.to_read = to_read,
                                                            !.attempt = @ + 1,
                                                            !.bytes_read = Len(bytes_read)]]
    /\ UNCHANGED <<rd_stream, rd_calls, rd_unread>>
    /\ UNCHANGED nonRd

\* The for loop of _buffer_bytes has made MAX_READ_ATTEMPTS turns: the last
\* piece is shorter than n and _buffer_bytes raises
ReaderGivesUp ==
    /\ rd_pc = "recv"
    /\ rd_outcome.loop.attempt = MAX_READ_ATTEMPTS
    /\ rd_outcome.loop.bytes_read < rd_outcome.loop.n
    /\ rd_pc' = "reader"
    /\ rd_reader' = [rd_reader EXCEPT !.raised = TRUE]
    /\ rd_outcome' = [rd_outcome EXCEPT !.loop = NoLoop]
    /\ UNCHANGED <<rd_stream, rd_calls, rd_unread>>
    /\ UNCHANGED nonRd

\* byte_stream.rewind(places), over bytes that have been read
ReaderRewind(places) ==
    /\ ReaderCan
    /\ places <= rd_reader.pos + 1
    /\ rd_reader' = rewind(rd_reader, places)
    /\ rd_outcome' = Did("rewind", places, <<>>, 0, 0, NoLoop)
    /\ rd_calls' = rd_calls + 1
    /\ UNCHANGED <<rd_pc, rd_stream, rd_unread>>
    /\ UNCHANGED nonRd

\* byte_stream.reset()
ReaderReset ==
    /\ ReaderCan
    /\ rd_reader' = reset(rd_reader)
    /\ rd_outcome' = Did("reset", 0, <<>>, 0, 0, NoLoop)
    /\ rd_calls' = rd_calls + 1
    /\ UNCHANGED <<rd_pc, rd_stream, rd_unread>>
    /\ UNCHANGED nonRd

ReaderNext ==
    \/ \E n \in ReadSizes, chunk \in RecvSizes : ReaderRead(n, chunk)
    \/ ReaderRecv
    \/ ReaderGivesUp
    \/ \E places \in ReadSizes : ReaderRewind(places)
    \/ ReaderReset

(***************************************************************************)
(* DataXceiverChannel.readBlock (snakebite/channel.py).  The bytes of a    *)
(* block are named by their offsets in the block; a load is the range of   *)
(* block bytes [from, from + len) it carries.                              *)
(***************************************************************************)
LOAD_SIZE == 16000
CHECKSUM_NULL == 0
CHECKSUM_CRC32 == 1
CHECKSUM_CRC32C == 2
CHECKSUM_DEFAULT == 3

\* snakebite.crc32c.crc(chunk): the Castagnoli CRC32 of a chunk
crc(chunk) == <<CHECKSUM_CRC32C, chunk>>

\* The checksum a DataNode that announces checksum type type stores for a chunk
DataChecksum(type, chunk) == <<type, chunk>>

\* The DataNode's side of OP_READ_BLOCK: the payload starts at the chunk
\* boundary at or before the requested offset and comes in packets of
\* chunks_per_packet chunks (the last one may be shorter).
\*   dn == [status, checksum_type, bytes_per_chunk, chunks_per_packet, numBytes,
\*          flipped: the block offsets of the chunks whose payload arrives damaged]
PacketStart(dn, offset) == offset - (offset % dn.bytes_per_chunk)

PacketDataLen(dn, pos) == Min(dn.chunks_per_packet * dn.bytes_per_chunk, dn.numBytes - pos)

\* The chunk with index checksum_index of the packet at pos, as it arrives,
\* and the checksum sent for it
ChunkAt(dn, pos, checksum_index) ==
    LET at == pos + checksum_index * dn.bytes_per_chunk
    IN  [at |-> at, flipped |-> at \in dn.flipped]

ChecksumAt(dn, pos, checksum_index) ==
    DataChecksum(dn.checksum_type,
                 [at |-> pos + checksum_index * dn.bytes_per_chunk, flipped |-> FALSE])

\* channel.py line 628: the chunk fails verification
chunk_mismatch(dn, pos, checksum_index, len_checksums) ==
    /\ checksum_index < len_checksums
    /\ crc(ChunkAt(dn, pos, checksum_index)) # ChecksumAt(dn, pos, checksum_index)

\* channel.py line 615: bytes_per_load (0.0 when bytes_per_chunk exceeds LOAD_SIZE)
bytes_per_load(bytes_per_chunk) == LOAD_SIZE - (LOAD_SIZE % bytes_per_chunk)

\* The loads of the packet at block offset pos (lines 594-633), for
\* bytes_per_load > 0:
\*   [from, len, mismatch: some chunk of the load fails verification,
\*    flipped: a damaged chunk starts in the load]
PacketLoads(dn, pos, crc_check) ==
    LET bytes_per_chunk == dn.bytes_per_chunk
        data_len == PacketDataLen(dn, pos)
        chunks_per_packet == (data_len + bytes_per_chunk - 1) \div bytes_per_chunk
        chunks_per_load == bytes_per_load(bytes_per_chunk) \div bytes_per_chunk
        loads_per_packet == (bytes_per_chunk * chunks_per_packet + bytes_per_load(bytes_per_chunk) - 1)
                                \div bytes_per_load(bytes_per_chunk)
        read_on_packet(i) == Min(i * chunks_per_load * bytes_per_chunk, data_len)
        chunks_of(i) == {i * chunks_per_load + j : j \in 0..(chunks_per_load - 1)}
    IN  [n \in 1..loads_per_packet |->
            LET i == n - 1 IN
            [from |-> pos + read_on_packet(i),
             len |-> Min(chunks_per_load * bytes_per_chunk, data_len - read_on_packet(i)),
             mismatch |-> crc_check /\ \E c \in chunks_of(i) :
                              chunk_mismatch(dn, pos, c, chunks_per_packet),
             flipped |-> \E at \in dn.flipped :
                              /\ at >= pos + read_on_packet(i)
                              /\ at < pos + Min(read_on_packet(i + 1), data_len)]]

\* A faulty variant of ReadPackets that stops after the first packet
ReadPackets_one(dn, pos, total_read, length, crc_check) ==
    IF total_read >= length \/ PacketDataLen(dn, pos) <= 0
    THEN <<>>
    ELSE PacketLoads(dn, pos, crc_check)

\* The while loop of readBlock (lines 580-633): the loads of every packet
\* read until total_read reaches length
RECURSIVE ReadPackets(_, _, _, _, _)
ReadPackets(dn, pos, total_read, length, crc_check) ==
    IF total_read >= length \/ PacketDataLen(dn, pos) <= 0
    THEN <<>>
    ELSE PacketLoads(dn, pos, crc_check)
            \o ReadPackets(dn, pos + PacketDataLen(dn, pos),
                           total_read + PacketDataLen(dn, pos), length, crc_check)

\* Index of the first element of s that satisfies Test, Len(s) + 1 if none
FirstIndex(s, Test(_)) ==
    IF \E i \in 1..Len(s) : Test(s[i])
    THEN CHOOSE i \in 1..Len(s) : Test(s[i]) /\ \A k \in 1..(i - 1) : ~Test(s[k])
    ELSE Len(s) + 1

\* channel.py line 573
accepted_checksum_type(checksum_type) == checksum_type \in {CHECKSUM_CRC32C, CHECKSUM_CRC32}

IsMismatch(l) == l.mismatch

\* readBlock(length, pool_id, block_id, generation_stamp, offset, block_token, check_crc)
\* run to its end against DataNode dn; the socket breaks after drop loads have
\* been yielded (drop < 0: it does not break; a drop beyond the last load
\* breaks it when the final status is written).
\*   [loads: the loads yielded, raised: the generator raised, status_sent: it
\*    sent ClientReadStatusProto SUCCESS, closed: it closed the socket]
readBlock(length, offset, dn, crc_check, drop) ==
    LET len == length - offset
        zero == len > 0 /\ bytes_per_load(dn.bytes_per_chunk) = 0
        whole == IF zero THEN <<>>
                 ELSE ReadPackets(dn, PacketStart(dn, offset), 0, len, crc_check)
        bad == FirstIndex(whole, IsMismatch)
        upto == Min(bad - 1, IF drop < 0 THEN Len(whole) ELSE Min(drop, Len(whole)))
        raises == zero \/ bad <= Len(whole) \/ drop >= 0
    IN  IF ~accepted_checksum_type(dn.checksum_type)
        THEN [loads |-> <<>>, raised |-> TRUE, status_sent |-> FALSE, closed |-> FALSE]
        ELSE IF dn.status # 0
        THEN [loads |-> <<>>, raised |-> FALSE, status_sent |-> FALSE, closed |-> FALSE]
        ELSE [loads |-> SubSeq(whole, 1, upto), raised |-> raises,
              status_sent |-> ~raises, closed |-> ~raises]

(***************************************************************************)
(* Client._read_file (snakebite/client.py), the block-read coordinator     *)
(***************************************************************************)
MaxBlocks == 2                       \* blocks of the file
MaxReplicas == 2                     \* replicas of a block
BlockSize == 50000                   \* the NameNode's block size
LastBlockSizes == {700, 20530}
BytesPerChunks == {512, 32768}       \* bytesPerChecksum the DataNodes announce
ChunksPerPackets == {40, 126}        \* chunks in a full packet
ChecksumTypes == {CHECKSUM_NULL, CHECKSUM_CRC32, CHECKSUM_CRC32C, CHECKSUM_DEFAULT}
TailLengths == {100, 20430, 30000}
Drops == {0, 1, 9}                   \* loads yielded before a socket breaks
Flips == {{0}, {16384}}     \* chunks damaged in transit

\* The files the NameNode may hold: full blocks and a last block, every block
\* on the same storages.  The packet size and the checksum type vary only
\* where readBlock gets far enough to look at them.
Files ==
    {f \in [numBytes : {[b \in 1..n |-> IF b < n THEN BlockSize ELSE last] :
                            n \in 0..MaxBlocks, last \in LastBlockSizes},
            locs : {1..r : r \in 1..MaxReplicas},
            bytes_per_chunk : BytesPerChunks,
            chunks_per_packet : ChunksPerPackets,
            checksum_type : ChecksumTypes] :
        /\ f.bytes_per_chunk > LOAD_SIZE => f.checksum_type = CHECKSUM_CRC32C
        /\ (f.bytes_per_chunk > LOAD_SIZE \/ f.checksum_type \notin {CHECKSUM_CRC32, CHECKSUM_CRC32C})
              => f.chunks_per_packet = 40}

SumSeq(s) == LET RECURSIVE Sum(_)
                 Sum(k) == IF k = 0 THEN 0 ELSE s[k] + Sum(k - 1)
             IN  Sum(Len(s))

FileLength(file) == SumSeq(file.numBytes)

\* Offset in the file of the first byte of block b
BlockStart(file, b) == SumSeq(SubSeq(file.numBytes, 1, b - 1))

\* ClientProtocol.getBlockLocations(src, offset, length) at the NameNode: the
\* blocks from the one that holds offset on, the file length, the last block
getBlockLocations(file, offset) ==
    LET n == Len(file.numBytes)
        first == IF \E b \in 1..n : offset < BlockStart(file, b) + file.numBytes[b]
                 THEN CHOOSE b \in 1..n :
                        /\ offset < BlockStart(file, b) + file.numBytes[b]
                        /\ \A k \in 1..(b - 1) : offset >= BlockStart(file, k) + file.numBytes[k]
                 ELSE n + 1
    IN  [fileLength |-> FileLength(file),
         blocks |-> [i \in 1..(n + 1 - first) |-> first + i - 1],
         lastBlock |-> n]

\* lines 1100-1105
num_blocks_tail(response) ==
    IF response.lastBlock = response.blocks[1] THEN 1 ELSE 2

\* lines 1112-1119: offset_in_block of block b
first_offset_in_block(file, response, b, t_only, t_length) ==
    IF t_only
    THEN IF num_blocks_tail(response) = 2 /\ b # response.lastBlock
         THEN file.numBytes[b] - (t_length - file.numBytes[response.lastBlock])
         ELSE IF num_blocks_tail(response) = 1
              THEN Max(0, file.numBytes[response.lastBlock] - t_length)
              ELSE 0
    ELSE 0

\* A faulty variant of fill_queue that gives every location priority 0
fill_queue_flat(locs, failed) ==
    {<<0, st>> : st \in locs}

\* lines 1122-1127: (priority, storage) for every location of the block
fill_queue(locs, failed) ==
    {<<IF st \in Range(failed) THEN 1 ELSE 0, st>> : st \in locs}

\* No file is being read
RfOff ==
    /\ rf_pc = "unbuilt"
    /\ rf_file = [numBytes |-> <<>>, locs |-> {}, bytes_per_chunk |-> 0,
                  chunks_per_packet |-> 0, checksum_type |-> 0]
    /\ tail_only = FALSE
    /\ tail_length = 0
    /\ check_crc = FALSE
    /\ blocks = <<>>
    /\ lastblock = 0
    /\ block_pos = 0
    /\ offset_in_block = 0
    /\ failed_nodes = <<>>
    /\ locations_queue = {}
    /\ rf_loads = <<>>
    /\ rf_requests = <<>>
    /\ rf_outcome = "none"

\* A client and a file on the NameNode, before _read_file is called
RfInit ==
    /\ rf_pc = "idle"
    /\ rf_file \in Files
    /\ tail_only = FALSE
    /\ tail_length = 0
    /\ check_crc = FALSE
    /\ blocks = <<>>
    /\ lastblock = 0
    /\ block_pos = 0
    /\ offset_in_block = 0
    /\ failed_nodes = <<>>
    /\ locations_queue = {}
    /\ rf_loads = <<>>
    /\ rf_requests = <<>>
    /\ rf_outcome = "none"

nonRf == <<haVars, svcVars, chVars, rdVars, dlVars, poVars, glVars>>

\* The for loop of _read_file reaches blocks[pos] (lines 1109-1130), or ends
\* and the generator returns
ForBlock(response, pos, failed, t_only, t_length) ==
    /\ block_pos' = pos
    /\ IF pos > Len(response.blocks)
       THEN /\ rf_pc' = "done"
            /\ rf_outcome' = "returned"
            /\ offset_in_block' = 0
            /\ locations_queue' = {}
       ELSE /\ rf_pc' = "block"
            /\ rf_outcome' = "none"
            /\ offset_in_block' = first_offset_in_block(rf_file, response, response.blocks[pos],
                                                        t_only, t_length)
            /\ locations_queue' = fill_queue(rf_file.locs, failed)

\* _read_file(path, node, tail_only, check_crc, tail_length) runs up to its
\* first DataNode connection (lines 1083-1127)
ReadFile(t_only, t_length, crc_wanted) ==
    /\ rf_pc = "idle"
    /\ tail_only' = t_only
    /\ tail_length' = t_length
    /\ check_crc' = crc_wanted
    /\ LET length == FileLength(rf_file)
           offset == IF t_only THEN Max(0, length - t_length) ELSE 0
           response == getBlockLocations(rf_file, offset)
       IN  /\ blocks' = response.blocks
           /\ lastblock' = response.lastBlock
           /\ rf_loads' = IF response.fileLength = 0
                          THEN <<[block |-> 0, from |-> 0, len |-> 0, flipped |-> FALSE]>>
                          ELSE <<>>
           /\ IF t_only /\ response.blocks = <<>>
              THEN /\ rf_pc' = "done"
                   /\ rf_outcome' = "IndexError"
                   /\ block_pos' = 0
                   /\ offset_in_block' = 0
                   /\ locations_queue' = {}
              ELSE ForBlock(response, 1, <<>>, t_only, t_length)
    /\ failed_nodes' = <<>>
    /\ rf_requests' = <<>>
    /\ UNCHANGED rf_file
    /\ UNCHANGED nonRf

CatFile == \E crc_wanted \in BOOLEAN : ReadFile(FALSE, 0, crc_wanted)

TailFile == \E t_length \in TailLengths : ReadFile(TRUE, t_length, FALSE)

\* A faulty variant of advance_offset that asks the next replica for the same offset
advance_offset_not(offset, len_load) == offset

\* line 1139: offset_in_block += len(load)
advance_offset(offset, len_load) == offset + len_load

\* locations_queue.get(): an entry of the lowest priority; entries of equal
\* priority are ordered by comparing the location messages, in no defined order
queue_get(queue) == {e \in queue : \A o \in queue : e[1] <= o[1]}

\* One turn of the while loop (lines 1131-1156) on the block blocks[block_pos]:
\* connects tells whether connect() succeeds, status, known (the response
\* carries the checksum info), flipped and drop are the DataNode's and the
\* network's doing
ReadAttempt(connects, status, known, flipped, drop) ==
    /\ rf_pc = "block"
    /\ \E entry \in queue_get(locations_queue) :
        LET b == blocks[block_pos]
            storage == entry[2]
            dn == [status |-> status,
                   checksum_type |-> IF known THEN rf_file.checksum_type ELSE CHECKSUM_NULL,
                   bytes_per_chunk |-> rf_file.bytes_per_chunk,
                   chunks_per_packet |-> rf_file.chunks_per_packet,
                   numBytes |-> rf_file.numBytes[b],
                   flipped |-> flipped]
            r == readBlock(rf_file.numBytes[b], offset_in_block, dn, check_crc, drop)
            yielded == [i \in 1..Len(r.loads) |->
                          [block |-> b, from |-> r.loads[i].from, len |-> r.loads[i].len,
                           flipped |-> r.loads[i].flipped]]
            bytes_read == SumSeq([i \in 1..Len(r.loads) |-> r.loads[i].len])
            successful_read == ~r.raised /\ Len(r.loads) > 0
            failed == IF r.raised /\ storage \notin Range(failed_nodes)
                      THEN Append(failed_nodes, storage)
                      ELSE failed_nodes
            queue == locations_queue \ {entry}
            request == [block |-> b, storage |-> storage, offset |-> offset_in_block,
                        status |-> status, checksum_type |-> dn.checksum_type,
                        flipped |-> flipped, drop |-> drop,
                        connected |-> connects, raised |-> connects /\ r.raised,
                        read |-> IF connects THEN bytes_read ELSE 0,
                        status_sent |-> connects /\ r.status_sent,
                        closed |-> connects /\ r.closed]
        IN  /\ rf_requests' = Append(rf_requests, request)
            /\ IF ~connects
               THEN /\ rf_pc' = "done"
                    /\ rf_outcome' = "ConnectionFailureException"
                    /\ locations_queue' = queue
                    /\ UNCHANGED <<rf_loads, offset_in_block, failed_nodes, block_pos>>
               ELSE /\ rf_loads' = rf_loads \o yielded
                    /\ failed_nodes' = failed
                    /\ IF successful_read
                       THEN ForBlock([blocks |-> blocks, lastBlock |-> lastblock], block_pos + 1,
                                     failed, tail_only, tail_length)
                       ELSE /\ offset_in_block' = advance_offset(offset_in_block, bytes_read)
                            /\ locations_queue' = queue
                            /\ block_pos' = block_pos
                            /\ rf_pc' = IF queue = {} THEN "done" ELSE "block"
                            /\ rf_outcome' = IF queue = {} THEN "Exception" ELSE "none"
    /\ UNCHANGED <<rf_file, tail_only, tail_length, check_crc, blocks, lastblock>>
    /\ UNCHANGED nonRf

\* connect() returns False
AttemptConnectFails == ReadAttempt(FALSE, 0, TRUE, {}, -1)

\* The DataNode serves the block and nothing goes wrong on the way
AttemptServed == ReadAttempt(TRUE, 0, TRUE, {}, -1)

\* The DataNode answers with a status other than SUCCESS
AttemptRefused == \E known \in BOOLEAN : ReadAttempt(TRUE, 1, known, {}, -1)

\* The socket breaks
AttemptBroken == \E drop \in Drops : ReadAttempt(TRUE, 0, TRUE, {}, drop)

\* A chunk is damaged on the way
AttemptDamaged == \E flipped \in Flips : ReadAttempt(TRUE, 0, TRUE, flipped, -1)

RfNext ==
    \/ CatFile
    \/ TailFile
    \/ AttemptConnectFails
    \/ AttemptServed
    \/ AttemptRefused
    \/ AttemptBroken
    \/ AttemptDamaged

(***************************************************************************)
(* Client.delete and the trash (snakebite/client.py).  A path is the       *)
(* sequence of its characters; the NameNode's namespace is the set of its  *)
(* entries, the root being always there.                                   *)
(***************************************************************************)
MaxDeletes == 2
MaxCheckpoints == 2
MaxClock == 2
MaxRpcs == 7

sep == <<"/">>

endswith(s, suffix) ==
    /\ Len(s) >= Len(suffix)
    /\ SubSeq(s, Len(s) - Len(suffix) + 1, Len(s)) = suffix

\* os.path.join(a, b)
join(a, b) ==
    IF startswith(b, sep) THEN b
    ELSE IF a = <<>> \/ endswith(a, sep) THEN a \o b
    ELSE a \o sep \o b

\* str.rfind(sep) + 1
rfind_sep(p) ==
    IF \E i \in 1..Len(p) : p[i] = "/"
    THEN CHOOSE i \in 1..Len(p) : p[i] = "/" /\ \A j \in (i + 1)..Len(p) : p[j] # "/"
    ELSE 0

RECURSIVE rstrip_sep(_)
rstrip_sep(s) ==
    IF s # <<>> /\ s[Len(s)] = "/" THEN rstrip_sep(SubSeq(s, 1, Len(s) - 1)) ELSE s

\* os.path.dirname(p)
dirname(p) ==
    LET head == SubSeq(p, 1, rfind_sep(p))
    IN IF head # <<>> /\ \E i \in 1..Len(head) : head[i] # "/" THEN rstrip_sep(head) ELSE head

\* os.path.basename(p)
basename(p) == SubSeq(p, rfind_sep(p) + 1, Len(p))

Digits == <<"0", "1", "2", "3", "4", "5", "6", "7", "8", "9">>

\* str(n) of an integer n >= 0
RECURSIVE str(_)
str(n) == IF n < 10 THEN <<Digits[n + 1]>> ELSE str(n \div 10) \o <<Digits[(n % 10) + 1]>>

\* get_current_username()
current_username == <<"u">>

\* Client._join_user_path(path)
join_user_path(path) == join(join(sep \o <<"u", "s", "e", "r">>, current_username), path)

\* ---- the NameNode
Exists(ns, p) == p = sep \/ \E e \in ns : e.path = p

IsDirectory(ns, p) == p = sep \/ \E e \in ns : e.path = p /\ e.type = "d"

\* the entry at p and everything below it
Subtree(ns, p) == {e \in ns : e.path = p \/ startswith(e.path, p \o sep)}

\* p and its ancestors but the root
RECURSIVE Lineage(_)
Lineage(p) == IF p = sep \/ p = <<>> THEN {} ELSE {p} \cup Lineage(dirname(p))

\* ClientNamenodeProtocol.getFileInfo: the file type, or "None"
getFileInfo(ns, src) ==
    IF src = sep THEN "d"
    ELSE IF \E e \in ns : e.path = src THEN (CHOOSE e \in ns : e.path = src).type
    ELSE "None"

\* ClientNamenodeProtocol.delete
NN_delete(ns, src) == [result |-> Exists(ns, src) /\ src # sep, ns |-> ns \ Subtree(ns, src)]

\* ClientNamenodeProtocol.mkdirs with createParent
NN_mkdirs(ns, src) ==
    LET ok == \A q \in Lineage(src) : Exists(ns, q) => IsDirectory(ns, q)
    IN [result |-> ok,
        ns |-> IF ok
               THEN ns \cup {[path |-> q, type |-> "d", length |-> 0] : q \in {l \in Lineage(src) : ~Exists(ns, l)}}
               ELSE ns]

\* ClientNamenodeProtocol.rename: a source renamed onto a directory moves into it
NN_rename(ns, src, dst) ==
    LET target == IF IsDirectory(ns, dst) THEN join(dst, basename(src)) ELSE dst
        ok == /\ Exists(ns, src) /\ src # sep
              /\ ~Exists(ns, target)
              /\ IsDirectory(ns, dirname(target))
              /\ ~startswith(target, src \o sep)
    IN [result |-> ok,
        ns |-> IF ok
               THEN (ns \ Subtree(ns, src)) \cup
                    {[e EXCEPT !.path = target \o SubSeq(e.path, Len(src) + 1, Len(e.path))] :
                        e \in Subtree(ns, src)}
               ELSE ns]

\* the trash emptier of the NameNode: Current becomes a checkpoint directory
checkpoint_path(t, n) == join(t, <<"c">> \o str(n))

\* ---- Client
\* Client.test(path, exists=True)
test(ns, path) == getFileInfo(ns, path) # "None"

refuses_directory_never(node, recurse) == FALSE

\* _handle_delete: `if (self._is_dir(node) and not recurse)`
refuses_directory(node, recurse) == node = "d" /\ ~recurse

\* Client.__should_move_to_trash: "True" | "False" | "Exception"
should_move_to_trash(path, u_trash, t) ==
    IF ~u_trash THEN "False"
    ELSE IF startswith(path, t) THEN "False"
    ELSE IF startswith(dirname(t), path) THEN "Exception"
    ELSE "True"

\* _handle_delete: suffix_path
suffix_path(path) ==
    IF endswith(path, sep) THEN SubSeq(path, 2, Len(path) - 1) ELSE SubSeq(path, 2, Len(path))

strip_slash(p) == IF endswith(p, sep) THEN SubSeq(p, 1, Len(p) - 1) ELSE p

Current == <<"C", "u", "r", "r", "e", "n", "t">>

\* _handle_delete: trash_path before the for loop
first_trash_path(path, t) == strip_slash(join(join(t, Current), suffix_path(path)))

\* _handle_delete: base_trash_path
trash_base(path, t) == strip_slash(join(join(t, Current), dirname(suffix_path(path))))

tests_never(found) == FALSE

\* _handle_delete: the condition of `while self.test(trash_path, exists=True)`
tests(found) == found

Rpc(method, src, dst, result, dst_existed) ==
    [method |-> method, src |-> src, dst |-> dst, result |-> result, dst_existed |-> dst_existed]

\* ---- the namespaces a client may find
Entry(p, type) == [path |-> p, type |-> type, length |-> 0]

\* a file that is not empty
Sized(p, length) == [path |-> p, type |-> "f", length |-> length]

Home == join_user_path(<<>>)

Trashcan == join_user_path(<<".", "T", "r", "a", "s", "h", "c", "a", "n">>)

TrashRoot == join_user_path(<<".", "T", "r", "a", "s", "h">>)

InCurrent(p) == join(join(TrashRoot, Current), p)

Outside ==
    {Entry(<<"/", "a">>, "f"), Entry(<<"/", "d">>, "d"), Entry(<<"/", "d", "/", "f">>, "f"),
     Entry(<<"/", "u", "s">>, "f"), Entry(<<"/", "u", "s", "e", "r">>, "d"),
     Entry(strip_slash(Home), "d"), Entry(Trashcan, "f"),
     Entry(<<"/", "e">>, "d"), Sized(<<"/", "b">>, 7)}

EmptyTrash == {Entry(TrashRoot, "d"), Entry(strip_slash(InCurrent(<<>>)), "d")}

Trashes ==
    {{},
     EmptyTrash \cup {Entry(InCurrent(<<"a">>), "f")},
     EmptyTrash \cup {Entry(InCurrent(<<"a">>), "f"), Entry(InCurrent(<<"a">> \o str(1)), "f")},
     EmptyTrash \cup {Entry(InCurrent(<<"d">>), "d"), Entry(InCurrent(<<"d", "/", "f">>), "f")}}

Namespaces == {Outside \cup t : t \in Trashes}

DlOff ==
    /\ dl_pc = "unbuilt"
    /\ use_trash = FALSE
    /\ trash = <<>>
    /\ namespace = {}
    /\ clock = 0
    /\ checkpoints = 0
    /\ dl_calls = 0
    /\ dl_path = <<>>
    /\ dl_node = "None"
    /\ dl_recurse = FALSE
    /\ trash_path = <<>>
    /\ base_trash_path = <<>>
    /\ original_path = <<>>
    /\ dl_i = 0
    /\ dl_rpcs = <<>>
    /\ dl_outcome = "none"

PoOff ==
    /\ po_pc = "unbuilt"
    /\ po_args = <<>>
    /\ po_out = <<>>
    /\ po_rpcs = <<>>
    /\ po_outcome = "none"
    /\ po_calls = 0
    /\ local = {}

\* Client.__init__
DlInit ==
    /\ dl_pc = "idle"
    /\ use_trash \in BOOLEAN
    /\ trash = join_user_path(<<".", "T", "r", "a", "s", "h">>)
    /\ namespace \in Namespaces
    /\ clock = 1
    /\ checkpoints = 0
    /\ dl_calls = 0
    /\ dl_path = <<>>
    /\ dl_node = "None"
    /\ dl_recurse = FALSE
    /\ trash_path = <<>>
    /\ base_trash_path = <<>>
    /\ original_path = <<>>
    /\ dl_i = 0
    /\ dl_rpcs = <<>>
    /\ dl_outcome = "none"

nonDl == <<haVars, svcVars, chVars, rdVars, rfVars, poVars, glVars>>

\* _handle_delete(path, node, recurse) up to its first RPC to the trash
handle_delete(path, node, recurse) ==
    LET move == should_move_to_trash(path, use_trash, trash)
        deleted == NN_delete(namespace, path)
    IN /\ dl_calls' = dl_calls + 1
       /\ dl_path' = path
       /\ dl_node' = node
       /\ dl_recurse' = recurse
       /\ dl_i' = 0
       /\ original_path' = <<>>
       /\ IF refuses_directory(node, recurse)
          THEN /\ dl_outcome' = "DirectoryException"
               /\ dl_rpcs' = <<>>
               /\ UNCHANGED <<dl_pc, namespace, trash_path, base_trash_path>>
          ELSE IF move = "Exception"
          THEN /\ dl_outcome' = "Exception: Cannot move to the trash"
               /\ dl_rpcs' = <<>>
               /\ UNCHANGED <<dl_pc, namespace, trash_path, base_trash_path>>
          ELSE IF move = "True"
          THEN /\ trash_path' = first_trash_path(path, trash)
               /\ base_trash_path' = trash_base(path, trash)
               /\ dl_pc' = "mkdir"
               /\ dl_outcome' = "none"
               /\ dl_rpcs' = <<>>
               /\ UNCHANGED namespace
          ELSE /\ namespace' = deleted.ns
               /\ dl_rpcs' = <<Rpc("delete", path, <<>>, deleted.result, FALSE)>>
               /\ dl_outcome' = "deleted"
               /\ UNCHANGED <<dl_pc, trash_path, base_trash_path>>
       /\ UNCHANGED <<use_trash, trash, clock, checkpoints>>

\* delete: _find_items hands the path and its node to _handle_delete
HandleDelete(path, recurse) ==
    LET node == getFileInfo(namespace, path)
    IN /\ dl_pc = "idle"
       /\ dl_calls < MaxDeletes
       /\ node # "None"
       /\ handle_delete(path, node, recurse)
       /\ UNCHANGED nonDl

Delete == \E path \in {e.path : e \in namespace} \cup {sep}, recurse \in BOOLEAN : HandleDelete(path, recurse)

\* list(self.mkdir([base_trash_path], create_parent=True, mode=0o700)); original_path = trash_path
TrashMkdir ==
    LET made == NN_mkdirs(namespace, base_trash_path)
    IN /\ dl_pc = "mkdir"
       /\ IF getFileInfo(namespace, base_trash_path) = "None"
          THEN /\ namespace' = made.ns
               /\ dl_rpcs' = Append(dl_rpcs, Rpc("mkdirs", base_trash_path, <<>>, made.result, FALSE))
          ELSE UNCHANGED <<namespace, dl_rpcs>>
       /\ original_path' = trash_path
       /\ dl_pc' = "test"
       /\ UNCHANGED <<use_trash, trash, clock, checkpoints, dl_calls, dl_path, dl_node, dl_recurse,
                      trash_path, base_trash_path, dl_i, dl_outcome>>
       /\ UNCHANGED nonDl

\* one evaluation of `while self.test(trash_path, exists=True)` and, when it holds, the body;
\* time.time() does not run backwards
TrashTest ==
    LET found == test(namespace, trash_path)
    IN /\ dl_pc = "test"
       /\ Len(dl_rpcs) < MaxRpcs
       /\ dl_rpcs' = Append(dl_rpcs, Rpc("getFileInfo", trash_path, <<>>, found, FALSE))
       /\ IF tests(found)
          THEN /\ \E unix_timestamp \in clock..Min(clock + 1, MaxClock) :
                    /\ clock' = unix_timestamp
                    /\ trash_path' = original_path \o str(unix_timestamp)
               /\ UNCHANGED dl_pc
          ELSE /\ dl_pc' = "rename"
               /\ UNCHANGED <<clock, trash_path>>
       /\ UNCHANGED <<use_trash, trash, namespace, checkpoints, dl_calls, dl_path, dl_node, dl_recurse,
                      base_trash_path, original_path, dl_i, dl_outcome>>
       /\ UNCHANGED nonDl

\* result = self._handle_rename(path, node, trash_path) and the end of the loop body
TrashRename ==
    LET renamed == NN_rename(namespace, dl_path, trash_path)
    IN /\ dl_pc = "rename"
       /\ namespace' = renamed.ns
       /\ dl_rpcs' = Append(dl_rpcs, Rpc("rename", dl_path, trash_path, renamed.result,
                                         Exists(namespace, trash_path)))
       /\ IF renamed.result
          THEN /\ dl_outcome' = "moved"
               /\ dl_pc' = "idle"
               /\ UNCHANGED dl_i
          ELSE IF dl_i + 1 < 2
          THEN /\ dl_i' = dl_i + 1
               /\ dl_pc' = "mkdir"
               /\ UNCHANGED dl_outcome
          ELSE /\ dl_outcome' = "Exception: Failed to move to trash"
               /\ dl_pc' = "idle"
               /\ UNCHANGED dl_i
       /\ UNCHANGED <<use_trash, trash, clock, checkpoints, dl_calls, dl_path, dl_node, dl_recurse,
                      trash_path, base_trash_path, original_path>>
       /\ UNCHANGED nonDl

\* the NameNode checkpoints the trash (the case the for loop of _handle_delete is there for)
Checkpoint ==
    LET renamed == NN_rename(namespace, join(trash, Current), checkpoint_path(trash, checkpoints + 1))
    IN /\ dl_pc # "unbuilt"
       /\ checkpoints < MaxCheckpoints
       /\ renamed.result
       /\ namespace' = renamed.ns
       /\ checkpoints' = checkpoints + 1
       /\ UNCHANGED <<dl_pc, use_trash, trash, clock, dl_calls, dl_path, dl_node, dl_recurse,
                      trash_path, base_trash_path, original_path, dl_i, dl_rpcs, dl_outcome>>
       /\ UNCHANGED nonDl

DlNext ==
    \/ Delete
    \/ TrashMkdir
    \/ TrashTest
    \/ TrashRename
    \/ Checkpoint

(***************************************************************************)
(* Client._find_items, Client.ls, Client.rmdir and Client.touchz           *)
(* (snakebite/client.py), against the same NameNode.                       *)
(***************************************************************************)
MaxOps == 2
PageSize == 2

\* the characters of the model in the order of their codes
Alphabet ==
    <<".", "/", "0", "1", "2", "C", "T", "a", "b", "c", "d", "e", "f", "h", "n", "r", "s", "t", "u">>

ord(c) == CHOOSE i \in 1..Len(Alphabet) : Alphabet[i] = c

\* s < t for byte strings
RECURSIVE Less(_, _)
Less(s, t) ==
    IF t = <<>> THEN FALSE
    ELSE IF s = <<>> THEN TRUE
    ELSE IF s[1] # t[1] THEN ord(s[1]) < ord(t[1])
    ELSE Less(SubSeq(s, 2, Len(s)), SubSeq(t, 2, Len(t)))

\* the entries of a set in the order of their names
RECURSIVE Sorted(_)
Sorted(entries) ==
    IF entries = {} THEN <<>>
    ELSE LET first == CHOOSE e \in entries : \A o \in entries \ {e} : Less(e.path, o.path)
         IN <<first>> \o Sorted(entries \ {first})

ChildrenOf(ns, p) == {e \in ns : dirname(e.path) = p}

\* ClientNamenodeProtocol.getListing: a page of the children after startAfter, named
\* by their last component, and the number of those that remain
getListing(ns, src, startAfter) ==
    LET later == Sorted({e \in ChildrenOf(ns, src) : Less(startAfter, basename(e.path))})
        page == SubSeq(later, 1, Min(PageSize, Len(later)))
    IN [partialListing |-> [i \in 1..Len(page) |-> [page[i] EXCEPT !.path = basename(page[i].path)]],
        remainingEntries |-> Len(later) - Len(page)]

RECURSIVE get_dir_listing(_, _, _)

get_dir_listing_one_page(ns, path, start_after) == getListing(ns, path, start_after).partialListing

\* Client._get_dir_listing(path, start_after)
get_dir_listing(ns, path, start_after) ==
    LET listing == getListing(ns, path, start_after)
        nodes == listing.partialListing
    IN IF listing.remainingEntries > 0
       THEN nodes \o get_dir_listing(ns, path, nodes[Len(nodes)].path)
       ELSE nodes

\* Client._get_full_path(path, node)
get_full_path(path, node) == IF node.path # <<>> THEN join(path, node.path) ELSE path

\* the HdfsFileStatusProto getFileInfo answers with: its path is empty
FileStatus(ns, p) ==
    IF p = sep THEN [path |-> <<>>, type |-> "d", length |-> 0]
    ELSE [(CHOOSE e \in ns : e.path = p) EXCEPT !.path = <<>>]

\* what _find_items hands to the processor
Item(path, node) == [path |-> path, type |-> node.type, length |-> node.length]

RECURSIVE Concat(_)
Concat(seqs) == IF seqs = <<>> THEN <<>> ELSE Head(seqs) \o Concat(Tail(seqs))

\* Client._find_items([path], ...) for a path without glob characters that exists:
\* the items handed to the processor, in order
RECURSIVE find_item(_, _, _, _, _)
find_item(ns, path, include_toplevel, include_children, recurse) ==
    LET fileinfo == FileStatus(ns, path)
        is_dir == fileinfo.type = "d"
        own == IF include_toplevel \/ ~is_dir
               THEN <<Item(get_full_path(path, fileinfo), fileinfo)>>
               ELSE <<>>
        nodes == get_dir_listing(ns, path, <<>>)
        below == [i \in 1..Len(nodes) |->
                    <<Item(get_full_path(path, nodes[i]), nodes[i])>> \o
                    (IF recurse /\ nodes[i].type = "d"
                     THEN find_item(ns, join(path, nodes[i].path), FALSE, FALSE, recurse)
                     ELSE <<>>)]
    IN own \o (IF is_dir /\ (include_children \/ recurse) THEN Concat(below) ELSE <<>>)

\* Client._find_items(paths, ...) without check_nonexistence: the items handed to the
\* processor until a path is not found
RECURSIVE find_items(_, _, _, _, _)
find_items(ns, paths, include_toplevel, include_children, recurse) ==
    IF paths = <<>> THEN [items |-> <<>>, raised |-> "None"]
    ELSE IF ~Exists(ns, Head(paths)) THEN [items |-> <<>>, raised |-> "FileNotFoundException"]
    ELSE LET rest == find_items(ns, Tail(paths), include_toplevel, include_children, recurse)
         IN [items |-> find_item(ns, Head(paths), include_toplevel, include_children, recurse)
                          \o rest.items,
             raised |-> rest.raised]

\* Client.ls(paths, recurse, include_toplevel, include_children) for paths without globs
ls(ns, paths, recurse, include_toplevel, include_children) ==
    find_items(ns, paths, include_toplevel, include_children, recurse)

Args(op, paths, recurse, include_toplevel, include_children) ==
    [op |-> op, paths |-> paths, recurse |-> recurse,
     include_toplevel |-> include_toplevel, include_children |-> include_children]

\* Client.__init__
PoInit ==
    /\ po_pc = "idle"
    /\ po_args = Args("none", <<>>, FALSE, FALSE, FALSE)
    /\ po_out = <<>>
    /\ po_rpcs = <<>>
    /\ po_outcome = "none"
    /\ po_calls = 0
    /\ local = {}

nonPo == <<haVars, svcVars, chVars, rdVars, rfVars, dlVars, glVars>>

nonPoDl == <<haVars, svcVars, chVars, rdVars, rfVars, glVars>>

\* ---- rmdir
\* rmdir([path]): _find_items hands the path to _handle_rmdir, which tests that it is a directory
Rmdir ==
    \E path \in {e.path : e \in namespace} :
        /\ po_pc = "idle"
        /\ dl_pc = "idle"
        /\ po_calls < MaxOps
        /\ po_calls' = po_calls + 1
        /\ po_args' = Args("rmdir", <<path>>, FALSE, TRUE, FALSE)
        /\ po_out' = <<>>
        /\ po_rpcs' = <<>>
        /\ IF getFileInfo(namespace, path) # "d"
           THEN /\ po_outcome' = "DirectoryException: Is not a directory"
                /\ UNCHANGED po_pc
           ELSE /\ po_outcome' = "none"
                /\ po_pc' = "ls"
        /\ UNCHANGED local
        /\ UNCHANGED nonPo

\* _handle_rmdir: files = self.ls([path]) and the test of its length
RmdirLs ==
    LET path == po_args.paths[1]
        files == ls(namespace, <<path>>, FALSE, FALSE, TRUE)
    IN /\ po_pc = "ls"
       /\ IF files.raised # "None"
          THEN po_outcome' = files.raised /\ po_pc' = "idle"
          ELSE IF Len(files.items) > 0
          THEN po_outcome' = "DirectoryException: Directory is not empty" /\ po_pc' = "idle"
          ELSE po_pc' = "delete" /\ UNCHANGED po_outcome
       /\ UNCHANGED <<po_args, po_out, po_rpcs, po_calls>>
       /\ UNCHANGED local
       /\ UNCHANGED nonPo

\* _handle_rmdir: return self._handle_delete(path, node, recurse=True)
RmdirDelete ==
    /\ po_pc = "delete"
    /\ handle_delete(po_args.paths[1], "d", TRUE)
    /\ po_pc' = "idle"
    /\ po_outcome' = "_handle_delete"
    /\ UNCHANGED <<po_args, po_out, po_rpcs, po_calls>>
    /\ UNCHANGED local
    /\ UNCHANGED nonPoDl

\* another client of the NameNode creates a file n in a directory
OtherClientCreates ==
    \E d \in {e \in namespace : e.type = "d"} :
        /\ po_pc # "unbuilt"
        /\ d.path \in {<<"/", "d">>, <<"/", "e">>}
        /\ ~Exists(namespace, join(d.path, <<"n">>))
        /\ namespace' = namespace \cup {Entry(join(d.path, <<"n">>), "f")}
        /\ UNCHANGED <<dl_pc, use_trash, trash, clock, checkpoints, dl_calls, dl_path, dl_node,
                       dl_recurse, trash_path, base_trash_path, original_path, dl_i, dl_rpcs, dl_outcome>>
        /\ UNCHANGED poVars
        /\ UNCHANGED nonPoDl

RmdirNext ==
    \/ Rmdir
    \/ RmdirLs
    \/ RmdirDelete
    \/ TrashMkdir
    \/ TrashTest
    \/ TrashRename
    \/ OtherClientCreates

\* ---- touchz
NoNode == [path |-> <<>>, type |-> "None", length |-> 0]

Returned(ns, out, rpcs) == [out |-> out, raised |-> "None", rpcs |-> rpcs, ns |-> ns]

Raises(ns, exception, rpcs) == [out |-> <<>>, raised |-> exception, rpcs |-> rpcs, ns |-> ns]

\* ClientNamenodeProtocol.create without createParent: the file is there and empty afterwards
NN_create(ns, src, overwrite) ==
    LET ok == /\ IsDirectory(ns, dirname(src))
              /\ ~IsDirectory(ns, src)
              /\ Exists(ns, src) => overwrite
    IN [ok |-> ok,
        ns |-> IF ok THEN {e \in ns : e.path # src} \cup {Entry(src, "f")} ELSE ns]

\* Client._create_file(path, replication, blocksize, overwrite) and the record _handle_touchz returns
create_file(ns, path, overwrite) ==
    LET created == NN_create(ns, path, overwrite)
    IN IF created.ok
       THEN Returned(created.ns, <<[path |-> path, result |-> TRUE, error |-> "None"]>>,
                     <<"create", "complete">>)
       ELSE Raises(ns, "RequestError", <<"create">>)

\* Client._handle_touchz(path, node, replication, blocksize)
handle_touchz(ns, path, node) ==
    IF node.type # "None"
    THEN IF node.length # 0 THEN Raises(ns, "FileException", <<>>)
         ELSE IF node.type = "d" THEN Raises(ns, "DirectoryException", <<>>)
         ELSE create_file(ns, path, TRUE)
    ELSE IF getFileInfo(ns, dirname(path)) = "None"
         THEN Raises(ns, "DirectoryException", <<>>)
         ELSE create_file(ns, path, FALSE)

find_nonexistent_handled(ns, path) ==
    handle_touchz(ns, path, IF Exists(ns, path) THEN FileStatus(ns, path) ELSE NoNode)

\* Client._find_items([path], processor, include_toplevel=True, check_nonexistence=True)
\* for a path without glob characters, the processor being _handle_touchz
find_nonexistent(ns, path) ==
    IF getFileInfo(ns, path) = "None"
    THEN handle_touchz(ns, path, NoNode)
    ELSE Returned(ns, <<[path |-> path, result |-> FALSE, error |-> "File already exists"]>>, <<>>)

\* the paths touchz is asked for that are not in every namespace
NewPaths ==
    {<<"/", "n">>, <<"/", "e", "/", "n">>, <<"/", "a", "/", "n">>, <<"/", "c", "/", "n">>}

\* touchz([path])
Touchz ==
    \E path \in {e.path : e \in namespace} \cup NewPaths :
        LET done == find_nonexistent(namespace, path)
        IN /\ po_pc = "idle"
           /\ po_calls < MaxOps
           /\ po_calls' = po_calls + 1
           /\ po_args' = Args("touchz", <<path>>, FALSE, TRUE, FALSE)
           /\ po_out' = done.out
           /\ po_rpcs' = done.rpcs
           /\ po_outcome' = IF done.raised = "None" THEN "returned" ELSE done.raised
           /\ namespace' = done.ns
           /\ UNCHANGED po_pc
           /\ UNCHANGED <<dl_pc, use_trash, trash, clock, checkpoints, dl_calls, dl_path, dl_node,
                          dl_recurse, trash_path, base_trash_path, original_path, dl_i, dl_rpcs, dl_outcome>>
           /\ UNCHANGED local
           /\ UNCHANGED nonPoDl

TouchzNext == Touchz

\* ---- glob.expand_paths and ls
\* str.index(c), counted from 1; 0 when c is not in s
index(s, c) ==
    IF \E i \in 1..Len(s) : s[i] = c
    THEN CHOOSE i \in 1..Len(s) : s[i] = c /\ \A j \in 1..(i - 1) : s[j] # c
    ELSE 0

\* str.rfind(c), counted from 1; 0 when c is not in s
rfind(s, c) ==
    IF \E i \in 1..Len(s) : s[i] = c
    THEN CHOOSE i \in 1..Len(s) : s[i] = c /\ \A j \in (i + 1)..Len(s) : s[j] # c
    ELSE 0

\* str.split(",")
RECURSIVE split(_)
split(s) ==
    IF index(s, ",") = 0 THEN <<s>>
    ELSE <<SubSeq(s, 1, index(s, ",") - 1)>> \o split(SubSeq(s, index(s, ",") + 1, Len(s)))

\* exp.findall(path) is not empty: a "{" with a "}" after it
exp_matches(path) == \E i \in 1..Len(path) : path[i] = "{" /\ \E j \in (i + 1)..Len(path) : path[j] = "}"

\* glob.expand_path: template % s for s in opts
expand_results(path) ==
    LET first_close == index(path, "}")
        last_open == rfind(SubSeq(path, 1, first_close - 1), "{")
        opts == split(SubSeq(path, last_open + 1, first_close - 1))
        before == SubSeq(path, 1, IF last_open = 0 THEN Len(path) - 1 ELSE last_open - 1)
        after == SubSeq(path, first_close + 1, Len(path))
    IN [i \in 1..Len(opts) |-> before \o opts[i] \o after]

RECURSIVE expand_paths(_)

expand_path_first(path) ==
    IF ~exp_matches(path) THEN <<path>> ELSE expand_paths(<<expand_results(path)[1]>>)

\* glob.expand_path(path)
expand_path(path) ==
    IF ~exp_matches(path) THEN <<path>> ELSE expand_paths(expand_results(path))

\* glob.expand_paths(paths)
expand_paths(paths) ==
    IF paths = <<>> THEN <<>> ELSE expand_path(Head(paths)) \o expand_paths(Tail(paths))

\* glob.has_magic(s)
has_magic(s) == \E i \in 1..Len(s) : s[i] \in {"*", "?", "[", "{", "}"}

\* namespaces whose root holds the directory /a and the file /b and nothing else
ABRoots ==
    {{Entry(<<"/", "a">>, "d"), Sized(<<"/", "b">>, 7)},
     {Entry(<<"/", "a">>, "d"), Sized(<<"/", "b">>, 7), Entry(<<"/", "a", "/", "b">>, "f"),
      Entry(<<"/", "a", "/", "c">>, "f"), Entry(<<"/", "a", "/", "e">>, "d"),
      Entry(<<"/", "a", "/", "e", "/", "f">>, "f")}}

\* the paths ls is asked for
LsPaths ==
    {<<sep>>, <<<<"/", "a">>>>, <<<<"/", "b">>>>, <<<<"/", "{", "a", ",", "b", "}">>>>,
     <<<<"/", "a">>, <<"/", "b">>>>, <<<<"/", "b">>, <<"/", "a">>>>, <<<<"/", "a", "/", "e">>>>,
     <<<<"/", "b">>, <<"/", "n">>>>}

\* Client.__init__ of a client that meets one of the namespaces nss
ClientOf(nss) ==
    /\ dl_pc = "idle"
    /\ use_trash = FALSE
    /\ trash = join_user_path(<<".", "T", "r", "a", "s", "h">>)
    /\ namespace \in nss
    /\ clock = 1
    /\ checkpoints = 0
    /\ dl_calls = 0
    /\ dl_path = <<>>
    /\ dl_node = "None"
    /\ dl_recurse = FALSE
    /\ trash_path = <<>>
    /\ base_trash_path = <<>>
    /\ original_path = <<>>
    /\ dl_i = 0
    /\ dl_rpcs = <<>>
    /\ dl_outcome = "none"

LsInit == ClientOf(ABRoots \cup {Outside}) /\ PoInit

\* list(client.ls(paths, recurse, include_toplevel, include_children)), no path having
\* glob characters once its braces are expanded
Ls ==
    \E paths \in LsPaths, recurse \in BOOLEAN, include_toplevel \in BOOLEAN, include_children \in BOOLEAN :
        LET found == ls(namespace, expand_paths(paths), recurse, include_toplevel, include_children)
        IN /\ po_pc = "idle"
           /\ po_calls < MaxOps
           /\ \A i \in 1..Len(expand_paths(paths)) : ~has_magic(expand_paths(paths)[i])
           /\ po_calls' = po_calls + 1
           /\ po_args' = Args("ls", paths, recurse, include_toplevel, include_children)
           /\ po_out' = found.items
           /\ po_rpcs' = <<>>
           /\ po_outcome' = IF found.raised = "None" THEN "returned" ELSE found.raised
           /\ UNCHANGED po_pc
           /\ UNCHANGED local
           /\ UNCHANGED nonPo

LsNext == Ls

(***************************************************************************)
(* Client._get_dir_listing page by page (snakebite/client.py)              *)
(***************************************************************************)
MaxPages == 7                     \* getListing RPCs for one directory

\* directories /d with any of five files in it
ListingRoots ==
    {{Entry(<<"/", "d">>, "d")} \cup {Sized(<<"/", "d", "/", c>>, 1) : c \in names} :
        names \in SUBSET {"a", "b", "c", "e", "f"}}

\* ClientNamenodeProtocol.getListing on a NameNode that puts at most limit
\* entries on this page
get_listing_page(ns, src, startAfter, limit) ==
    LET later == Sorted({e \in ChildrenOf(ns, src) : Less(startAfter, basename(e.path))})
        page == SubSeq(later, 1, Min(limit, Len(later)))
    IN [partialListing |-> [i \in 1..Len(page) |-> [page[i] EXCEPT !.path = basename(page[i].path)]],
        remainingEntries |-> Len(later) - Len(page)]

\* A faulty variant of next_start_after that keeps the first node of the page
next_start_after_first(start_after, nodes) ==
    IF nodes = <<>> THEN start_after ELSE nodes[1].path

\* start_after when the for loop over the page has ended (lines 1240-1242)
next_start_after(start_after, nodes) ==
    IF nodes = <<>> THEN start_after ELSE nodes[Len(nodes)].path

\* A faulty variant of more_pages that never stops
more_pages_always(listing) == TRUE

\* line 1243
more_pages(listing) == listing.remainingEntries > 0

ListingInit == ClientOf(ListingRoots) /\ PoInit

\* list(client._get_dir_listing(path)) is started
GetDirListing(path) ==
    /\ po_pc = "idle"
    /\ po_calls < MaxOps
    /\ po_pc' = "listing"
    /\ po_calls' = po_calls + 1
    /\ po_args' = Args("get_dir_listing", <<path>>, FALSE, FALSE, FALSE)
    /\ po_out' = <<>>
    /\ po_rpcs' = <<>>
    /\ po_outcome' = "none"
    /\ UNCHANGED local
    /\ UNCHANGED nonPo

\* One _get_dir_listing(path, start_after): the getListing RPC, the nodes of
\* its page yielded, and the decision to ask for another page
GetListingPage(limit) ==
    /\ po_pc = "listing"
    /\ Len(po_rpcs) < MaxPages
    /\ LET start_after == IF po_rpcs = <<>> THEN <<>> ELSE po_rpcs[Len(po_rpcs)].next
           listing == get_listing_page(namespace, po_args.paths[1], start_after, limit)
           nodes == listing.partialListing
       IN  /\ po_rpcs' = Append(po_rpcs, [startAfter |-> start_after, listing |-> listing,
                                          next |-> next_start_after(start_after, nodes)])
           /\ po_out' = po_out \o nodes
           /\ IF more_pages(listing)
              THEN UNCHANGED <<po_pc, po_outcome>>
              ELSE po_pc' = "idle" /\ po_outcome' = "returned"
    /\ UNCHANGED <<po_args, po_calls>>
    /\ UNCHANGED local
    /\ UNCHANGED nonPo

ListingNext ==
    \/ \E path \in {sep, <<"/", "d">>, <<"/", "n">>} : GetDirListing(path)
    \/ \E limit \in 1..PageSize : GetListingPage(limit)

(***************************************************************************)
(* Client.getmerge (snakebite/client.py) and the local file it writes      *)
(***************************************************************************)

\* os.path.isfile(name)
isfile(fs, name) == \E f \in fs : f.name = name

\* open(name, 'w'): the file is created, or emptied
open_w(fs, name) == {f \in fs : f.name # name} \cup {[name |-> name, content |-> <<>>]}

\* f.write(data) on the open file name, if it has not been removed
write(fs, name, data) ==
    {IF f.name = name THEN [f EXCEPT !.content = f.content \o data] ELSE f : f \in fs}

\* os.remove(name)
remove(fs, name) == {f \in fs : f.name # name}

\* os.rename(src, dst): dst is replaced
rename(fs, src, dst) ==
    {f \in fs : f.name \notin {src, dst}} \cup
    {[name |-> dst, content |-> f.content] : f \in {g \in fs : g.name = src}}

\* "%s._COPYING_" % dst
temporary_target(dst) == dst \o <<"._COPYING_">>

\* the destination getmerge is given
Dst == <<"o", "u", "t">>

\* a directory /d with files of 3, 0 and 5 bytes and a directory in it
MergeRoot ==
    {Entry(<<"/", "d">>, "d"), Sized(<<"/", "d", "/", "a">>, 3), Sized(<<"/", "d", "/", "b">>, 0),
     Sized(<<"/", "d", "/", "c">>, 5), Entry(<<"/", "d", "/", "e">>, "d")}

\* What goes wrong during a getmerge:
\*   [kind |-> "none"]
\*   [kind |-> "read", at |-> i, loads |-> k]   _read_file of item i raises after k loads
\*   [kind |-> "rpc", at |-> i, exc |-> e]      an RPC of _find_items raises e after i items
Faults ==
    {[kind |-> "none", at |-> 0, loads |-> 0, exc |-> "None"]}
    \cup [kind : {"read"}, at : 1..4, loads : {0, 1}, exc : {"Exception"}]
    \cup [kind : {"rpc"}, at : 0..3, loads : {0}, exc : {"RequestError", "socket.error"}]

\* the bytes of a file of the NameNode, whole or the loads that arrived
Load(item, part) == <<[path |-> item.path, part |-> part]>>

\* _handle_getmerge(path, node, dst, check_crc) for the i-th item: the dicts it yields
handle_getmerge(item, i, fs, dst, fault) ==
    IF item.type # "f"
    THEN <<[response |-> <<>>, result |-> FALSE,
            error |-> IF isfile(fs, dst) THEN "target file exists" ELSE ""]>>
    ELSE IF item.length = 0
    THEN <<[response |-> <<>>, result |-> TRUE, error |-> ""]>>
    ELSE IF fault.kind = "read" /\ fault.at = i
    THEN (IF fault.loads > 0
          THEN <<[response |-> Load(item, "head"), result |-> TRUE, error |-> ""]>>
          ELSE <<>>)
         \o <<[response |-> <<>>, result |-> FALSE, error |-> "Exception"]>>
    ELSE <<[response |-> Load(item, "whole"), result |-> TRUE, error |-> ""]>>

\* `for load in item` of getmerge (lines 791-797) from the k-th dict on
RECURSIVE write_loads(_, _, _, _)
write_loads(loads, k, fs, temp) ==
    IF k > Len(loads) THEN [fs |-> fs, raised |-> "None"]
    ELSE IF loads[k].result
    THEN write_loads(loads, k + 1, write(fs, temp, loads[k].response), temp)
    ELSE IF loads[k].error # ""
    THEN [fs |-> remove(fs, temp), raised |-> "Exception"]
    ELSE write_loads(loads, k + 1, fs, temp)

\* `for item in self._find_items(...)` of getmerge (lines 790-799) from the
\* i-th item on; found is what _find_items would hand over undisturbed
\* (written is bound once, as the element of a one-element set)
RECURSIVE merge_items(_, _, _, _, _)
merge_items(found, i, fs, dst, fault) ==
    IF fault.kind = "rpc" /\ fault.at = i - 1
    THEN [fs |-> fs, raised |-> fault.exc]
    ELSE IF i > Len(found.items)
    THEN [fs |-> fs, raised |-> found.raised]
    ELSE CHOOSE done \in
             {IF written.raised # "None" THEN written
              ELSE merge_items(found, i + 1, written.fs, dst, fault) :
                 written \in {write_loads(handle_getmerge(found.items[i], i, fs, dst, fault),
                                          1, fs, temporary_target(dst))}} : TRUE

\* the finally clause of getmerge (lines 802-805)
getmerge_finally(fs, dst) ==
    IF isfile(fs, temporary_target(dst))
    THEN rename(fs, temporary_target(dst), dst)
    ELSE fs

\* list(client.getmerge(path, dst)): [fs: the local files afterwards, raised]
\* (found, opened and merged are bound once, as elements of one-element sets)
getmerge(ns, path, dst, fs, fault) ==
    CHOOSE done \in
        {[fs |-> getmerge_finally(merged.fs, dst), raised |-> merged.raised] :
            merged \in {merge_items(found, 1, opened, dst, fault) :
                          found \in {find_items(ns, <<path>>, TRUE, TRUE, FALSE)},
                          opened \in {open_w(fs, temporary_target(dst))}}} : TRUE

\* A client on a machine where dst does not exist, or is a file already
MergeInit ==
    /\ ClientOf({MergeRoot})
    /\ po_pc = "idle"
    /\ po_args = Args("none", <<>>, FALSE, FALSE, FALSE)
    /\ po_out = <<>>
    /\ po_rpcs = <<>>
    /\ po_outcome = "none"
    /\ po_calls = 0
    /\ local \in {{}, {[name |-> Dst, content |-> <<"old">>]}}

\* list(client.getmerge(path, Dst)), disturbed by fault
Getmerge(path, fault) ==
    LET done == getmerge(namespace, path, Dst, local, fault)
    IN  /\ po_pc = "idle"
        /\ po_calls < MaxOps
        /\ po_calls' = po_calls + 1
        /\ po_args' = Args("getmerge", <<path>>, FALSE, TRUE, TRUE)
        /\ po_rpcs' = <<fault>>
        /\ po_out' = IF done.raised = "None" THEN <<[path |-> Dst, result |-> TRUE]>> ELSE <<>>
        /\ po_outcome' = IF done.raised = "None" THEN "returned" ELSE done.raised
        /\ local' = done.fs
        /\ UNCHANGED po_pc
        /\ UNCHANGED nonPo

MergeNext ==
    \E path \in {<<"/", "d">>, <<"/", "d", "/", "a">>, <<"/", "d", "/", "e">>, <<"/", "n">>},
       fault \in Faults :
        Getmerge(path, fault)

(***************************************************************************)
(* glob.expand_path, call by call                                          *)
(***************************************************************************)

MaxGlobLen == 4

MaxPathLen == 40

GlobChars == {"{", "}", ",", "a"}

\* The path of GlobTest.test_path_expansion and what the test expects of it
TestPath == <<"/", "f", "o", "o", "/", "{", "b", "a", "r", ",", "b", "a", "z", "}", "/", "{", "q", "u", "z", ",", "q", "u", "u", "x", "}">>

TestExpected ==
    << <<"/", "f", "o", "o", "/", "b", "a", "r", "/", "q", "u", "z">>,
       <<"/", "f", "o", "o", "/", "b", "a", "r", "/", "q", "u", "u", "x">>,
       <<"/", "f", "o", "o", "/", "b", "a", "z", "/", "q", "u", "z">>,
       <<"/", "f", "o", "o", "/", "b", "a", "z", "/", "q", "u", "u", "x">> >>

\* A group inside a group
NestedPath == <<"/", "{", "a", ",", "{", "b", ",", "c", "}", "}">>

\* The strings expand_path is called with: every string of up to MaxGlobLen
\* characters over braces, comma and a letter, and the two longer paths
GlobInputs ==
    UNION {[1..n -> GlobChars] : n \in 0..MaxGlobLen} \cup {TestPath, NestedPath}

\* No expand_path call has been made
GlobOff ==
    /\ gl_pc = "unbuilt"
    /\ gl_path = <<>>
    /\ gl_frames = <<>>
    /\ gl_result = <<>>

\* expand_path(path) is entered
GlobInit ==
    /\ gl_pc = "run"
    /\ gl_path \in GlobInputs
    /\ gl_frames = <<gl_path>>
    /\ gl_result = <<>>

nonGlob == <<haVars, svcVars, chVars, rdVars, rfVars, dlVars, poVars>>

\* One call of expand_path, on the path the loop of expand_paths has reached:
\* a path without a group is returned, a path with one hands its results to
\* expand_paths, which calls expand_path on each of them in turn before the
\* remaining paths of the callers
ExpandPath ==
    /\ gl_pc = "run"
    /\ gl_frames # <<>>
    /\ Len(Head(gl_frames)) <= MaxPathLen
    /\ LET path == Head(gl_frames)
       IN  IF ~exp_matches(path)
           THEN /\ gl_result' = Append(gl_result, path)
                /\ gl_frames' = Tail(gl_frames)
           ELSE /\ gl_result' = gl_result
                /\ gl_frames' = expand_results(path) \o Tail(gl_frames)
    /\ gl_pc' = IF gl_frames' = <<>> THEN "done" ELSE "run"
    /\ UNCHANGED gl_path
    /\ UNCHANGED nonGlob

\* The path handed on is longer than the interpreter can hold, or the calls
\* are nested deeper than it allows: expand_path raises (MemoryError, or
\* RuntimeError: maximum recursion depth exceeded) and returns nothing
ExpandPathExhausted ==
    /\ gl_pc = "run"
    /\ gl_frames # <<>>
    /\ Len(Head(gl_frames)) > MaxPathLen
    /\ gl_pc' = "exhausted"
    /\ UNCHANGED <<gl_path, gl_frames, gl_result>>
    /\ UNCHANGED nonGlob

GlobNext == ExpandPath \/ ExpandPathExhausted

(***************************************************************************)
(* Specifications                                                          *)
(***************************************************************************)

\* One HAClient and its callers
InitHA == HAInit /\ SvcOff /\ ChanOff /\ RdOff /\ RfOff /\ DlOff /\ PoOff /\ GlobOff

SpecHA == InitHA /\ [][HANext]_vars

\* One HARpcService and its callers
InitSvc == HAOff /\ SvcInit /\ ChanOff /\ RdOff /\ RfOff /\ DlOff /\ PoOff /\ GlobOff

SpecSvc == InitSvc /\ [][SvcNext]_vars

\* The two HA dispatchers: a behaviour exercises either an HAClient or an HARpcService
FailoverInit ==
    \/ HAInit /\ SvcOff /\ ChanOff /\ RdOff /\ RfOff /\ DlOff /\ PoOff /\ GlobOff
    \/ HAOff /\ SvcInit /\ ChanOff /\ RdOff /\ RfOff /\ DlOff /\ PoOff /\ GlobOff

FailoverNext ==
    \/ HANext
    \/ SvcNext

SpecFailover == FailoverInit /\ [][FailoverNext]_vars

\* One SocketRpcChannel and its callers
InitChan == HAOff /\ SvcOff /\ ChanInit /\ RdOff /\ RfOff /\ DlOff /\ PoOff /\ GlobOff

SpecChan == InitChan /\ [][ChanNext]_vars

\* One reply parsed by SocketRpcChannel.parse_response
InitReader == HAOff /\ SvcOff /\ ChanOff /\ RdInit /\ RfOff /\ DlOff /\ PoOff /\ GlobOff

SpecReader == InitReader /\ [][RdNext]_vars

\* One file read by Client._read_file
InitCallReply == HAOff /\ SvcOff /\ ChanInit /\ RdInit /\ RfOff /\ DlOff /\ PoOff /\ GlobOff

\* SocketRpcChannel.CallMethod with the replies byte by byte
SpecCallReply == InitCallReply /\ [][CallReplyNext]_vars

InitBufferedReader == HAOff /\ SvcOff /\ ChanOff /\ ReaderInit /\ RfOff /\ DlOff /\ PoOff /\ GlobOff

\* One RpcBufferedReader, its socket handing out the bytes in pieces
SpecBufferedReader == InitBufferedReader /\ [][ReaderNext]_vars

InitListing == HAOff /\ SvcOff /\ ChanOff /\ RdOff /\ RfOff /\ ListingInit /\ GlobOff

\* Client._get_dir_listing, the NameNode choosing the size of every page
SpecListing == InitListing /\ [][ListingNext]_vars

InitGetmerge == HAOff /\ SvcOff /\ ChanOff /\ RdOff /\ RfOff /\ MergeInit /\ GlobOff

\* Client.getmerge into a local file
SpecGetmerge == InitGetmerge /\ [][MergeNext]_vars

InitReadFile == HAOff /\ SvcOff /\ ChanOff /\ RdOff /\ RfInit /\ DlOff /\ PoOff /\ GlobOff

SpecReadFile == InitReadFile /\ [][RfNext]_vars

\* One Client with its deletes, the clock and the trash checkpoints of the NameNode
InitDelete == HAOff /\ SvcOff /\ ChanOff /\ RdOff /\ RfOff /\ DlInit /\ PoOff /\ GlobOff

SpecDelete == InitDelete /\ [][DlNext]_vars

\* One Client with its rmdirs and another client of the same NameNode
InitRmdir == HAOff /\ SvcOff /\ ChanOff /\ RdOff /\ RfOff /\ DlInit /\ PoInit /\ GlobOff

SpecRmdir == InitRmdir /\ [][RmdirNext]_vars

\* One Client with its touchz calls
InitTouchz == HAOff /\ SvcOff /\ ChanOff /\ RdOff /\ RfOff /\ DlInit /\ PoInit /\ GlobOff

SpecTouchz == InitTouchz /\ [][TouchzNext]_vars

\* One Client with its ls calls
InitLs == HAOff /\ SvcOff /\ ChanOff /\ RdOff /\ RfOff /\ LsInit /\ GlobOff

SpecLs == InitLs /\ [][LsNext]_vars

\* One call of expand_path; a call that has been entered goes on running
InitGlob == HAOff /\ SvcOff /\ ChanOff /\ RdOff /\ RfOff /\ DlOff /\ PoOff /\ GlobInit

SpecGlob == InitGlob /\ [][GlobNext]_vars /\ WF_vars(GlobNext)

(***************************************************************************)
(* Claims about HAClient                                                   *)
(***************************************************************************)

\* The failover class of errors: a socket timeout, a socket error with errno
\* ECONNREFUSED or EHOSTUNREACH, a RequestError starting with StandbyException.
FailoverClass(e) ==
    \/ e.exc = "socket.timeout"
    \/ e.exc = "socket.error" /\ e.errno \in {"ECONNREFUSED", "EHOSTUNREACH"}
    \/ e.exc = "RequestError" /\ e.args0[1] = StandbyException

RetriableClass(e) == e.exc = "RequestError" /\ e.args0[1] = RetriableException

\* Every run of func in the finished call raised
EveryAttemptFailed == ha_pc = "done" /\ Len(ha_attempts) > 0 /\ Len(ha_errors) = Len(ha_attempts)

\* C1: if every attempt of a call fails with a failover-class error, the call
\* makes exactly 1 + max_failovers attempts and then raises OutOfNNException
\* (max_failovers = failover_attempts, as in test_ha_client_failover_retry).
C1_OnePlusFailoversAttempts ==
    (EveryAttemptFailed /\ \A i \in 1..Len(ha_errors) : FailoverClass(ha_errors[i]))
        => (Len(ha_attempts) = 1 + failover_attempts /\ ha_outcome = "OutOfNNException")

\* C2: on each failover the client switches to the next namenode of the list
\* cyclically: active becomes (active + 1) mod |C| (indices from 1 here), so
\* the first namenode is tried again after the last one.
C2_CyclicFailover ==
    [][(Len(ha_errors') = Len(ha_errors) + 1 /\ FailoverClass(ha_errors'[Len(ha_errors')]))
          => ha_active' = (ha_active % nn_count) + 1]_vars

\* C3: a RetriableException re-issues the call to the same namenode, at most
\* max_retries times; when all 1 + max_retries attempts fail this way the
\* RequestError is raised (max_retries = retry_attempts, as in test_ha_client_retry2).
C3_RetrySameNamenode ==
    (EveryAttemptFailed /\ \A i \in 1..Len(ha_errors) : RetriableClass(ha_errors[i]))
        => /\ Len(ha_attempts) = 1 + retry_attempts
           /\ \A i \in 1..Len(ha_attempts) : ha_attempts[i] = ha_attempts[1]
           /\ ha_outcome = "RequestError"

\* C6: a generator-type method that has yielded an item is not restarted by
\* failover: within one generator's lifetime no item is emitted twice and the
\* items keep their order.
C6_NoItemEmittedTwice ==
    ha_kind = "gen" => \A i, j \in 1..Len(ha_emitted) : i < j => ha_emitted[i] < ha_emitted[j]

\* C7: the failover budget is per call: once a call has succeeded, a later call
\* that meets only failover-class errors fails over to every configured
\* namenode before it gives up with OutOfNNException.
C7_BudgetPerCall ==
    (ha_succeeded /\ EveryAttemptFailed /\ \A i \in 1..Len(ha_errors) : FailoverClass(ha_errors[i]))
        => (ha_outcome = "OutOfNNException" /\ Range(ha_attempts) = 1..nn_count)

(***************************************************************************)
(* Claims about both HA dispatchers                                        *)
(***************************************************************************)

\* The step is an attempt of HAClient that raised an exception satisfying P
HAAttemptRaised(P(_)) ==
    /\ Len(ha_errors') = Len(ha_errors) + 1
    /\ P(ha_errors'[Len(ha_errors')])

\* The step is an RPC of HARpcService that raised an exception satisfying P
SvcAttemptRaised(P(_)) ==
    /\ Len(svc_log') = Len(svc_log) + 1
    /\ ~svc_log'[Len(svc_log')].ok
    /\ P(svc_log'[Len(svc_log')].err)

\* The call ends with the RequestError and the dispatcher's choice of namenode is untouched
HARaisedAtOnce ==
    ha_pc' = "done" /\ ha_outcome' = "RequestError" /\ ha_active' = ha_active /\ ha_gen' = ha_gen

SvcRaisedAtOnce ==
    /\ svc_pc' = "done" /\ svc_outcome' = "RequestError"
    /\ active_service' = active_service /\ services' = services

NeitherStandbyNorRetriable(e) ==
    e.exc = "RequestError" /\ e.args0[1] \notin {StandbyException, RetriableException}

NotStandbyRetriableNoSuchProtocol(e) ==
    e.exc = "RequestError"
    /\ e.args0[1] \notin {StandbyException, RetriableException, RpcNoSuchProtocolException}

\* C4 (as stated): a RequestError that starts with neither StandbyException nor
\* RetriableException is raised to the caller after exactly one attempt, with
\* no other namenode tried and the active namenode unchanged, in HAClient and
\* in HARpcService.
C4_OtherRequestErrorRaised ==
    [][/\ HAAttemptRaised(NeitherStandbyNorRetriable) => HARaisedAtOnce
       /\ SvcAttemptRaised(NeitherStandbyNorRetriable) => SvcRaisedAtOnce]_vars

\* C4 (amended): as above, except that HARpcService also fails over on a
\* RequestError that starts with RpcNoSuchProtocolException; every other
\* RequestError ends the call at once in both dispatchers.
C4_OtherRequestErrorRaisedAmended ==
    [][/\ HAAttemptRaised(NeitherStandbyNorRetriable) => HARaisedAtOnce
       /\ SvcAttemptRaised(NotStandbyRetriableNoSuchProtocol) => SvcRaisedAtOnce]_vars

\* C4 witness: an HARpcService call failed over from the first service and was
\* then ended by an AccessControlException of the second
C4_Witness ==
    /\ svc_pc = "done" /\ svc_outcome = "RequestError"
    /\ Len(svc_log) = 2
    /\ svc_log[1].svc = 1 /\ svc_log[1].err.exc = "socket.timeout"
    /\ svc_log[2].svc = 2 /\ svc_log[2].err = handle_error(AccessControlException)
    /\ active_service = 0

IsStandby(e) == e.exc = "RequestError" /\ e.args0[1] = StandbyException

\* C5: with channels [c0, c1], when c0 answers StandbyException k times and then
\* c1 answers successfully, the call has issued k + 1 RPCs, is over, and returns
\* c1's result (HAClient return-type methods, and HARpcService.call).
C5_StandbyThenSecondChannel ==
    /\ LET n == Len(ha_attempts)
           k == Len(ha_errors)
       IN  (/\ ha_kind = "return" /\ nn_count = 2 /\ n = k + 1
            /\ \A i \in 1..k : ha_attempts[i] = 1 /\ IsStandby(ha_errors[i])
            /\ ha_attempts[n] = 2)
           => (ha_pc = "done" /\ ha_outcome = "returned" /\ ha_result.nn = 2)
    /\ LET n == Len(svc_log)
       IN  (/\ Len(services) = 2 /\ n >= 1
            /\ svc_log[n].ok /\ svc_log[n].svc = 2
            /\ \A i \in 1..(n - 1) : svc_log[i].svc = 1 /\ IsStandby(svc_log[i].err))
           => (/\ svc_pc = "done" /\ svc_outcome = "returned"
               /\ svc_result = [nn |-> 2, val |-> svc_log[n].val])

(***************************************************************************)
(* Claims about SocketRpcChannel                                           *)
(***************************************************************************)

\* Exceptions of CallMethod other than RequestError
ClosingOutcomes == {"Exception", "NameError"} \cup IOExceptions

\* C8: after CallMethod raises RequestError the socket is still open and the
\* next call opens no new connection; after it raises any other exception the
\* socket is closed (sock = None) and the next call that gets past
\* validate_request opens a new connection.
C8_SocketKeptOnlyOnRequestError ==
    [][ch_calls' = ch_calls + 1 =>
          /\ ch_outcome' = "RequestError" => sock' = "open"
          /\ ch_outcome' \in ClosingOutcomes => sock' = "None"
          /\ ch_outcome = "RequestError" => conn_count' = conn_count
          /\ (ch_outcome \in ClosingOutcomes /\ ch_outcome' # "Exception")
                => conn_count' = conn_count + 1]_vars

\* C8 witness: a connection re-opened after a failure carries two requests, the
\* second answered with RequestError on the socket the first one left open
C8_Witness ==
    /\ conn_count = 2 /\ sock = "open" /\ ch_outcome = "RequestError"
    /\ Len(wire) = 4 /\ wire[3].frame = "request" /\ wire[4].frame = "request"

\* The call-ids of the RpcRequestHeaderProtos written on the socket opened last
HeaderFrames == SelectSeq(wire, LAMBDA f : f.frame # "hrpc")

\* C9: on the first connection of a channel the call-ids written are -3 (in the
\* context frame) and then 0, 1, 2, ... in the request frames, without gap or
\* repeat, RequestError answers included.
C9_FirstConnectionCallIds ==
    conn_count = 1 =>
        \A i \in 1..Len(HeaderFrames) :
            /\ HeaderFrames[i].callId = IF i = 1 THEN -3 ELSE i - 2
            /\ HeaderFrames[i].frame = IF i = 1 THEN "context" ELSE "request"

\* C9 witness: the first connection has carried the context and three requests,
\* the last one answered with RequestError
C9_Witness ==
    /\ conn_count = 1 /\ sock = "open" /\ ch_outcome = "RequestError"
    /\ Len(HeaderFrames) = 4 /\ HeaderFrames[4].callId = 2

\* C10: every connection starts the call-id sequence afresh: its context frame
\* carries call-id -3 and its first request call-id 0, also on a connection
\* opened after the socket was closed by a failure.
C10_EveryConnectionStartsAfresh ==
    /\ Len(HeaderFrames) >= 1 => HeaderFrames[1].callId = -3
    /\ Len(HeaderFrames) >= 2 => HeaderFrames[2].callId = 0

(***************************************************************************)
(* Claims about parse_response                                             *)
(***************************************************************************)

\* The call completed: a parsed SUCCESS response or a raised RequestError
RdCompleted == rd_outcome \in {"response", "None", "RequestError"}

\* C11: for every call that completes, the bytes taken from the socket for
\* the response are exactly 4 + the length announced in its first four bytes.
C11_ConsumesAnnouncedLength ==
    RdCompleted => rd_reader.taken = 4 + unpack_I(SubSeq(rd_stream, 1, 4))

\* A SUCCESS reply with a two-byte header varint and an empty delimited payload
C11_Witness ==
    /\ rd_outcome = "None"
    /\ rd_stream = RpcResponse(128, 0, 0, FALSE)
    /\ rd_reader.taken = 4 + 130 + 1

(***************************************************************************)
(* Claims about the block read                                             *)
(***************************************************************************)

\* The loads that carry bytes, with their offsets in the file
FileLoads(loads) ==
    LET nonempty == SelectSeq(loads, LAMBDA l : l.len > 0)
    IN  [i \in 1..Len(nonempty) |->
            [from |-> BlockStart(rf_file, nonempty[i].block) + nonempty[i].from,
             len |-> nonempty[i].len]]

\* Concatenated in order, the loads are the bytes [first, last) of the file
IsFileBytes(loads, first, last) ==
    LET s == FileLoads(loads) IN
    IF s = <<>> THEN first = last
    ELSE /\ s[1].from = first
         /\ \A i \in 1..(Len(s) - 1) : s[i + 1].from = s[i].from + s[i].len
         /\ s[Len(s)].from + s[Len(s)].len = last

\* No byte was damaged on its way to the caller
Undamaged == \A i \in 1..Len(rf_loads) : ~rf_loads[i].flipped

CatReturned == rf_pc = "done" /\ ~tail_only /\ rf_outcome = "returned"

C13_RetryContinuesAtOffset ==
    /\ \A i \in 1..(Len(rf_requests) - 1) :
          rf_requests[i + 1].block = rf_requests[i].block
              => rf_requests[i + 1].offset = rf_requests[i].offset + rf_requests[i].read
    /\ \A i \in 1..(Len(rf_loads) - 1) :
          rf_loads[i + 1].block = rf_loads[i].block
              => rf_loads[i + 1].from = rf_loads[i].from + rf_loads[i].len

\* A replica failed after it had emitted bytes and the next one emitted the rest
C13_Witness ==
    \E i \in 1..(Len(rf_requests) - 1) :
        /\ rf_requests[i].raised
        /\ rf_requests[i].read > 0
        /\ rf_requests[i + 1].block = rf_requests[i].block
        /\ rf_requests[i + 1].offset > rf_requests[i].offset
        /\ rf_requests[i + 1].read > 0
        /\ ~rf_requests[i + 1].raised

ReadFailed == rf_pc = "done" /\ rf_outcome \in {"ConnectionFailureException", "Exception"}

\* The storages asked for the block the for loop is at
Tried == {rf_requests[i].storage : i \in {k \in 1..Len(rf_requests) :
                                            rf_requests[k].block = blocks[block_pos]}}

\* C14: a replica that cannot be connected to or read from is marked as failed
\* and the next replica is tried; the read of the file fails only after every
\* replica of the block has been tried.
C14_FailsAfterEveryReplica ==
    /\ \A i \in 1..Len(rf_requests) :
          rf_requests[i].raised => rf_requests[i].storage \in Range(failed_nodes)
    /\ ReadFailed => Tried = rf_file.locs

\* The DataNode served the request as the protocol says and nothing was lost
\* or damaged on the way
ServedWell(request) ==
    /\ request.connected
    /\ request.status = 0
    /\ request.drop < 0
    /\ request.flipped = {}
    /\ rf_file.bytes_per_chunk <= LOAD_SIZE

\* C15: with check_crc every chunk is verified against the checksum of the same
\* index with the algorithm the DataNode announced (CRC32 or CRC32C): no damaged
\* chunk reaches the caller, and an undamaged block passes.
C15_VerifiedAsAnnounced ==
    check_crc =>
        /\ Undamaged
        /\ \A i \in 1..Len(rf_requests) :
              (ServedWell(rf_requests[i])
                  /\ rf_requests[i].checksum_type \in {CHECKSUM_CRC32, CHECKSUM_CRC32C})
                  => ~rf_requests[i].raised

\* Client._handle_tail: data[max(0, len(data) - tail_length):len(data)]
RECURSIVE DropBytes(_, _)
DropBytes(loads, k) ==
    IF loads = <<>> \/ k <= 0 THEN loads
    ELSE IF Head(loads).len <= k THEN DropBytes(Tail(loads), k - Head(loads).len)
    ELSE <<[Head(loads) EXCEPT !.from = @ + k, !.len = @ - k]>> \o Tail(loads)

handle_tail(loads, t_length) ==
    LET len_data == SumSeq([i \in 1..Len(loads) |-> loads[i].len])
    IN  DropBytes(loads, Max(0, len_data - t_length))

\* C16: tail(path, n) with 0 < n <= file length and n <= block size returns
\* the last n bytes of the file.
C16_TailYieldsLastBytes ==
    (rf_pc = "done" /\ tail_only /\ rf_outcome = "returned" /\ Undamaged
        /\ tail_length <= FileLength(rf_file))
        => IsFileBytes(handle_tail(rf_loads, tail_length),
                       FileLength(rf_file) - tail_length, FileLength(rf_file))

\* C17: readBlock takes the checksum types NULL, CRC32 and CRC32C and gives up
\* on any other type and on a status other than SUCCESS; a block announced with
\* type NULL is read when check_crc is false.
C17_NullChecksumIsRead ==
    \A i \in 1..Len(rf_requests) :
        /\ (rf_requests[i].connected
              /\ (rf_requests[i].status # 0
                    \/ rf_requests[i].checksum_type
                          \notin {CHECKSUM_NULL, CHECKSUM_CRC32, CHECKSUM_CRC32C}))
              => (rf_requests[i].read = 0 /\ ~rf_requests[i].status_sent)
        /\ (ServedWell(rf_requests[i]) /\ ~check_crc
              /\ rf_requests[i].checksum_type = CHECKSUM_NULL)
              => ~rf_requests[i].raised

(***************************************************************************)
(* Claims about delete and the trash                                       *)
(***************************************************************************)

\* relations on whole path components, for normalised paths
Inside(p, root) == p = root \/ startswith(p, root \o sep)

Ancestor(p, q) == p # q /\ (p = sep \/ startswith(q, p \o sep))

\* the running or last _handle_delete went past the directory test
DlDecided == dl_calls > 0 /\ dl_outcome # "DirectoryException"

TrashRoute == dl_pc \in {"mkdir", "test", "rename"} \/ dl_outcome \in {"moved", "Exception: Failed to move to trash"}

\* C18: delete moves a path to the trash exactly when use_trash is true, the path is
\* not inside the trash root and the trash root is not a descendant of the path; a path
\* inside the trash root is deleted permanently; delete raises, having issued no RPC,
\* exactly when use_trash is true and the path is an ancestor of the trash root; inside,
\* descendant and ancestor being relations on whole path components.
C18_TrashPolicyOnComponents ==
    DlDecided =>
        /\ TrashRoute <=> (use_trash /\ ~Inside(dl_path, trash) /\ ~Ancestor(dl_path, trash))
        /\ Inside(dl_path, trash) => dl_outcome = "deleted"
        /\ dl_outcome = "Exception: Cannot move to the trash" <=> (use_trash /\ Ancestor(dl_path, trash))
        /\ dl_outcome = "Exception: Cannot move to the trash" => dl_rpcs = <<>>

Renames == {k \in 1..Len(dl_rpcs) : dl_rpcs[k].method = "rename"}

Timestamps == {str(t) : t \in 1..MaxClock}

\* what the last test of path p before RPC k said: TRUE when p was there
LastTest(p, k) ==
    LET asked == {j \in 1..(k - 1) : dl_rpcs[j].method = "getFileInfo" /\ dl_rpcs[j].src = p}
    IN asked # {} /\ dl_rpcs[CHOOSE j \in asked : \A l \in asked : l <= j].result

\* C19: a trash delete of P renames P to a destination under <trash>/Current that was
\* tested just before and was not there: <trash>/Current/P if that name was free, else
\* that name with the millisecond timestamp appended; a rename that succeeds never lands
\* on an entry that was in the trash; after a successful delete P is gone from where it
\* was; and the delete fails only after its second rename failed, there being at most two.
C19_TrashDestinationIsFresh ==
    LET mapped == first_trash_path(dl_path, trash)
    IN /\ \A k \in Renames :
            /\ dl_rpcs[k].src = dl_path
            /\ k > 1 /\ dl_rpcs[k - 1] = Rpc("getFileInfo", dl_rpcs[k].dst, <<>>, FALSE, FALSE)
            /\ IF LastTest(mapped, k)
               THEN \E ts \in Timestamps : dl_rpcs[k].dst = mapped \o ts
               ELSE dl_rpcs[k].dst = mapped
            /\ dl_rpcs[k].result => ~dl_rpcs[k].dst_existed
       /\ Cardinality(Renames) <= 2
       /\ dl_outcome = "moved" => ~Exists(namespace, dl_path)
       /\ dl_outcome = "Exception: Failed to move to trash" => Cardinality(Renames) = 2

\* a delete moved its path to a timestamped name at its second attempt
C19_Witness ==
    /\ dl_outcome = "moved"
    /\ Cardinality(Renames) = 2
    /\ dl_rpcs[Len(dl_rpcs)].dst # first_trash_path(dl_path, trash)
    /\ Exists(namespace, dl_rpcs[Len(dl_rpcs)].dst)

\* C20: delete of a directory with recurse=false raises DirectoryException and issues
\* neither a delete RPC nor a rename RPC for it, with and without use_trash.
C20_DirectoryNeedsRecurse ==
    (dl_calls > 0 /\ dl_node = "d" /\ ~dl_recurse) =>
        /\ dl_outcome = "DirectoryException"
        /\ dl_pc = "idle"
        /\ \A k \in 1..Len(dl_rpcs) : dl_rpcs[k].method \notin {"delete", "rename"}

\* a directory outside the trash was refused by a client that uses the trash
C20_Witness ==
    /\ dl_outcome = "DirectoryException"
    /\ use_trash
    /\ should_move_to_trash(dl_path, use_trash, trash) = "True"
    /\ Exists(namespace, dl_path)

(***************************************************************************)
(* Claims about rmdir, touchz and ls                                       *)
(***************************************************************************)

\* C21: rmdir raises DirectoryException for a path that is not a directory and for a
\* directory that has a child when rmdir lists it, and every step of an rmdir removes
\* from the namespace at most the directory it was given, that directory having nothing
\* below it - also when another client adds a child between the listing and the delete.
C21_RmdirRemovesOnlyEmptyDirectory ==
    [][(po_args'.op = "rmdir") =>
        LET path == po_args'.paths[1]
        IN /\ (po_pc = "idle" /\ po_calls' # po_calls /\ getFileInfo(namespace, path) # "d")
                => po_outcome' = "DirectoryException: Is not a directory"
           /\ (po_pc = "ls" /\ po_pc' # "ls" /\ ChildrenOf(namespace, path) # {})
                => po_outcome' = "DirectoryException: Directory is not empty"
           /\ \A e \in namespace :
                ~Exists(namespace', e.path) => e.path = path /\ e.type = "d" /\ Subtree(namespace, path) = {e}
      ]_vars

TouchzEntry == CHOOSE e \in namespace : e.path = po_args.paths[1]

\* C22: touchz on a path that exists with a non-zero length raises FileException, touchz
\* on a path that exists as a directory raises DirectoryException, and in both cases no
\* create RPC is issued.
C22_TouchzRefusesNonEmptyAndDirectory ==
    (po_args.op = "touchz" /\ Exists(namespace, po_args.paths[1])) =>
        /\ TouchzEntry.length # 0 => po_outcome = "FileException" /\ po_rpcs = <<>>
        /\ TouchzEntry.type = "d" => po_outcome = "DirectoryException" /\ po_rpcs = <<>>

Record(p) ==
    IF p = sep THEN [path |-> sep, type |-> "d", length |-> 0] ELSE CHOOSE e \in namespace : e.path = p

Occurrences(r) == Cardinality({i \in 1..Len(po_out) : po_out[i] = r})

LsReturned == po_args.op = "ls" /\ po_outcome = "returned"

\* C24: ls of a literal path emits the path's own record iff the path is a file or
\* include_toplevel is true, and the record of every direct child (once) iff the path is
\* a directory and include_children or recurse is true; the own record comes first, and
\* without recurse nothing else is emitted; paths given in one call are processed in
\* input order.
C24_LsOfLiteralPath ==
    /\ (LsReturned /\ Len(po_args.paths) = 1 /\ ~has_magic(po_args.paths[1])) =>
          LET p == po_args.paths[1]
              is_dir == Record(p).type = "d"
              kids == {e.path : e \in ChildrenOf(namespace, p)}
          IN /\ Occurrences(Record(p)) = (IF ~is_dir \/ po_args.include_toplevel THEN 1 ELSE 0)
             /\ \A c \in kids :
                    Occurrences(Record(c)) =
                        (IF is_dir /\ (po_args.include_children \/ po_args.recurse) THEN 1 ELSE 0)
             /\ Occurrences(Record(p)) = 1 => po_out[1] = Record(p)
             /\ ~po_args.recurse => \A i \in 1..Len(po_out) : po_out[i].path \in {p} \cup kids
    /\ (LsReturned /\ Len(po_args.paths) = 2) =>
          po_out = ls(namespace, <<po_args.paths[1]>>, po_args.recurse, po_args.include_toplevel,
                      po_args.include_children).items
                   \o ls(namespace, <<po_args.paths[2]>>, po_args.recurse, po_args.include_toplevel,
                         po_args.include_children).items

\* a directory with more children than one page of getListing holds was listed with itself
C24_Witness ==
    /\ LsReturned
    /\ Len(po_args.paths) = 1
    /\ po_args.include_toplevel /\ po_args.include_children /\ ~po_args.recurse
    /\ Cardinality(ChildrenOf(namespace, po_args.paths[1])) > PageSize
    /\ Len(po_out) = Cardinality(ChildrenOf(namespace, po_args.paths[1])) + 1

BraceAB == <<"/", "{", "a", ",", "b", "}">>

LsBraceAB == po_args = Args("ls", <<BraceAB>>, FALSE, FALSE, TRUE) /\ namespace \in ABRoots

\* C25: against a NameNode whose root holds exactly the directory /a and the file /b,
\* ls(['/{a,b}']) yields the two records, of /a and of /b, that ls(['/']) yields.
C25_BraceListsLikeRoot ==
    LsBraceAB =>
        /\ po_outcome = "returned"
        /\ po_out = ls(namespace, <<sep>>, FALSE, FALSE, TRUE).items
        /\ po_out = <<Record(<<"/", "a">>), Record(<<"/", "b">>)>>

\* C25 as amended: ls(['/{a,b}']) yields what ls(['/a', '/b']) yields: the records of
\* the children of the directory /a in the order of their names, not the record of /a,
\* and then the record of the file /b.
C25_BraceListsEachOption ==
    LsBraceAB =>
        LET kids == Sorted(ChildrenOf(namespace, <<"/", "a">>))
        IN /\ po_outcome = "returned"
           /\ po_out = kids \o <<Record(<<"/", "b">>)>>
           /\ Occurrences(Record(<<"/", "a">>)) = 0

\* the braces were listed where /a has children
C25_Witness ==
    /\ LsBraceAB
    /\ ChildrenOf(namespace, <<"/", "a">>) # {}
    /\ Len(po_out) > 1

(***************************************************************************)
(* More claims about the block read and the dispatchers                    *)
(***************************************************************************)

\* C26: every DataNode socket that was connected for a block read is closed when the
\* read ends; ClientReadStatusProto SUCCESS is sent exactly when the read ended without
\* an error on a block the DataNode served with status SUCCESS, and never when the read
\* ended in an error.
C26_DataNodeSocketClosed ==
    \A i \in 1..Len(rf_requests) :
        rf_requests[i].connected =>
            /\ rf_requests[i].closed
            /\ rf_requests[i].status_sent <=> (~rf_requests[i].raised /\ rf_requests[i].status = 0)

\* C27: HARpcService.call returns the result of the first service on which the RPC
\* completed without error, with or without a payload, and issues no RPC after it.
C27_FirstSuccessIsReturned ==
    \A i \in 1..Len(svc_log) :
        svc_log[i].ok =>
            /\ i = Len(svc_log)
            /\ svc_pc = "done"
            /\ svc_outcome = "returned"
            /\ svc_result = [nn |-> svc_log[i].svc, val |-> svc_log[i].val]

\* C28: a generator-type call on HAClient ends either by yielding the complete
\* item sequence of a run of the method that did not fail, or by raising; it
\* never ends normally after a run that raised a failover-class error, and
\* once the namenode list is exhausted such an error raises OutOfNNException.
C28_GenEndsCompleteOrRaises ==
    (ha_pc = "done" /\ ha_kind = "gen") =>
        \/ /\ ha_outcome = "finished"
           /\ InAttempt
           /\ Len(ha_emitted) >= MaxItems
           /\ \A k \in 1..MaxItems : ha_emitted[Len(ha_emitted) - MaxItems + k] = k
        \/ /\ ha_outcome \notin {"finished", "none"}
           /\ ~InAttempt
           /\ (FailoverClass(ha_errors[Len(ha_errors)]) => ha_outcome = "OutOfNNException")

\* The last CallMethod returned a response (or None) or raised RequestError
CallCompleted == rd_calls > 0 /\ ch_outcome = rd_outcome /\ RdCompleted

\* C29: whenever CallMethod returns a response or raises RequestError, the
\* bytes its reader took from the socket are the reply the NameNode sent to
\* the request of this call, and nothing of that reply stays unread on the
\* socket the channel keeps.
C29_ParsedBytesAreThisReply ==
    CallCompleted =>
        /\ rd_reader.buffer = rd_stream
        /\ sock = "open"
        /\ rd_unread = <<>>

\* C29 witness: the second request on the socket that the first completed call
\* left open is answered with a response of 128 bytes
C29_Witness ==
    /\ CallCompleted
    /\ conn_count = 1 /\ Len(wire) = 4 /\ rd_calls = 2
    /\ rd_outcome = "response"
    /\ rd_stream = RpcResponse(4, 0, 128, FALSE)

\* The frames on the socket opened last are the prologue, once, and then requests
PrologueFirst(w) ==
    \A i \in 1..Len(w) :
        w[i].frame = IF i = 1 THEN "hrpc" ELSE IF i = 2 THEN "context" ELSE "request"

\* C30: no socket is opened before the first call; on every socket the channel
\* opens the connection prologue (the hrpc bytes, then the RpcRequestHeader and
\* the IpcConnectionContext) is written exactly once and before the first
\* request frame, unless a socket operation fails while it is written; with
\* SASL the context frame follows the SASL exchange.
C30_PrologueOncePerSocket ==
    [][/\ ch_calls = 0 => (sock = "None" /\ conn_count = 0 /\ wire = <<>>)
       /\ ch_calls' = ch_calls + 1 =>
            /\ PrologueFirst(wire')
            /\ (conn_count' = conn_count + 1 /\ ch_outcome' \notin IOExceptions)
                  => (Len(wire') >= 2 /\ wire'[2].complete)]_vars

(***************************************************************************)
(* Claims about the replicas tried by _read_file                           *)
(***************************************************************************)

\* The storage of request i had failed in this read before request i was made
FailedBefore(requests, st, i) ==
    \E j \in 1..(i - 1) : requests[j].storage = st /\ requests[j].raised

\* Request i goes to a storage that had failed before; every storage of the
\* block that had not has been tried for this block already
HealthyTriedFirst(requests, i) ==
    FailedBefore(requests, requests[i].storage, i) =>
        \A st \in rf_file.locs :
            ~FailedBefore(requests, st, i) =>
                \E k \in 1..(i - 1) :
                    requests[k].block = requests[i].block /\ requests[k].storage = st

\* C31: within the read of one file every replica whose storage has not failed
\* during this read is attempted before any replica whose storage has failed,
\* and the set of failed storages only grows.
C31_FailedReplicasLast ==
    [][rf_pc # "idle" =>
          /\ Range(failed_nodes) \subseteq Range(failed_nodes')
          /\ \A i \in 1..Len(rf_requests') : HealthyTriedFirst(rf_requests', i)]_vars

\* C31 witness: storage 1 failed on the first block; on the second block
\* storage 2 is tried first and, when it does not deliver, storage 1 after it
C31_Witness ==
    /\ Len(rf_requests) = 4
    /\ rf_requests[1].storage = 1 /\ rf_requests[1].raised /\ rf_requests[1].block = 1
    /\ rf_requests[3].storage = 2 /\ rf_requests[3].block = 2
    /\ rf_requests[4].storage = 1 /\ rf_requests[4].block = 2
    /\ failed_nodes = <<1, 2>>

\* C32: reading a file of length 0, in full or its tail, yields a single empty
\* element and returns, without a DataNode connection and without raising.
C32_EmptyFileYieldsEmpty ==
    (rf_pc = "done" /\ FileLength(rf_file) = 0) =>
        /\ rf_outcome = "returned"
        /\ Len(rf_loads) = 1 /\ rf_loads[1].len = 0
        /\ rf_requests = <<>>

(***************************************************************************)
(* Claims about RpcBufferedReader                                          *)
(***************************************************************************)

\* The last call on the reader was read(n)
WasRead == rd_pc = "reader" /\ rd_calls > 0 /\ rd_outcome.op = "read"

\* C33: read(n) returns exactly n bytes, however many socket reads that takes
\* as long as each returns at least one byte; it fails only after at least
\* MAX_READ_ATTEMPTS socket reads that returned nothing.
C33_ReadFailsOnlyWithoutProgress ==
    WasRead =>
        IF rd_reader.raised
        THEN rd_outcome.zero >= MAX_READ_ATTEMPTS
        ELSE Len(rd_outcome.ret) = rd_outcome.n

\* C34: read(n) advances pos by n and rewind(k) decreases it by k, neither
\* discards buffered bytes; a read(k) that follows read(n) and rewind(k), k <= n,
\* returns the last k bytes of the first read without reading from the socket.
C34_RewindThenReadAgain ==
    [][/\ (rd_calls' = rd_calls + 1 /\ rd_outcome'.op = "rewind")
            => /\ rd_reader'.pos = rd_reader.pos - rd_outcome'.n
               /\ rd_reader'.buffer = rd_reader.buffer
       /\ (rd_pc' = "reader" /\ rd_outcome'.op = "read" /\ ~rd_reader'.raised)
            => /\ rd_reader'.pos = rd_outcome'.before.pos + rd_outcome'.n
               /\ SubSeq(rd_reader'.buffer, 1, Len(rd_outcome'.before.buffer))
                     = rd_outcome'.before.buffer
       /\ (/\ rd_pc = "reader" /\ rd_calls > 0 /\ rd_outcome.op = "rewind"
           /\ rd_outcome.before.pos + 1 >= rd_outcome.n
           /\ rd_calls' = rd_calls + 1 /\ rd_outcome'.op = "read"
           /\ rd_outcome'.n = rd_outcome.n)
            => /\ rd_pc' = "reader"
               /\ rd_outcome'.recvs = 0
               /\ rd_reader'.taken = rd_reader.taken
               /\ rd_outcome'.ret = SubSeq(rd_outcome.before.buffer,
                                           rd_outcome.before.pos + 2 - rd_outcome.n,
                                           rd_outcome.before.pos + 1)]_vars

\* C34 witness: read(100), rewind(4) and read(4), which returns bytes 97..100
C34_Witness ==
    /\ rd_pc = "reader" /\ rd_calls = 3
    /\ rd_outcome.op = "read" /\ rd_outcome.n = 4 /\ rd_outcome.recvs = 0
    /\ rd_outcome.ret = <<97, 98, 99, 100>>
    /\ rd_reader.pos = 99 /\ rd_reader.taken = 100

(***************************************************************************)
(* Claims about _get_dir_listing                                           *)
(***************************************************************************)

\* The names of a sequence of nodes
Names(nodes) == [i \in 1..Len(nodes) |-> nodes[i].path]

ListingReturned ==
    po_pc = "idle" /\ po_outcome = "returned" /\ po_args.op = "get_dir_listing"

\* C35: a directory listed in several pages yields every child exactly once and
\* in NameNode order; every further getListing request carries the name of the
\* last child received so far as startAfter, and the first page whose
\* remainingEntries is 0 is the last one asked for.
C35_PagedListingYieldsEachChildOnce ==
    ListingReturned =>
        /\ Names(po_out) = Names(get_listing_page(namespace, po_args.paths[1], <<>>,
                                                  Cardinality(namespace)).partialListing)
        /\ po_rpcs[1].startAfter = <<>>
        /\ \A i \in 2..Len(po_rpcs) :
              LET received == Concat([k \in 1..(i - 1) |-> po_rpcs[k].listing.partialListing])
              IN  po_rpcs[i].startAfter = received[Len(received)].path
        /\ \A i \in 1..Len(po_rpcs) :
              (po_rpcs[i].listing.remainingEntries = 0) <=> (i = Len(po_rpcs))

\* C35 witness: five children arrive on three pages of 2, 1 and 2
C35_Witness ==
    /\ ListingReturned
    /\ Len(po_rpcs) = 3 /\ Len(po_out) = 5
    /\ Len(po_rpcs[2].listing.partialListing) = 1
    /\ po_rpcs[3].startAfter = <<"c">>

\* C36: the number of getListing RPCs issued for one directory is at most the
\* number of children received plus one, so the listing ends.
C36_ListingRpcsBounded ==
    /\ po_args.op = "get_dir_listing" => Len(po_rpcs) <= Len(po_out) + 1
    /\ (po_pc = "listing" /\ po_rpcs # <<>>) => Len(po_rpcs) <= Len(po_out)

\* C36 witness: five children on five pages, five RPCs
C36_Witness ==
    /\ ListingReturned
    /\ Len(po_rpcs) = 5 /\ Len(po_out) = 5

(***************************************************************************)
(* Claims about getmerge                                                   *)
(***************************************************************************)

\* The local file dst, as a set: empty when there is none
FileAt(fs, name) == {f \in fs : f.name = name}

\* The bytes of every non-empty child file of the path, whole and in order
MergedBytes(ns, path) ==
    LET items == find_items(ns, <<path>>, TRUE, TRUE, FALSE).items
    IN  Concat([i \in 1..Len(items) |->
                  IF items[i].type = "f" /\ items[i].length > 0
                  THEN Load(items[i], "whole") ELSE <<>>])

\* C37: getmerge makes dst appear only on success: after a getmerge that
\* returned, dst holds every child file whole; after one that raised, whether
\* on a failed read or on an error while iterating, dst is as it was before,
\* and in neither case is a dst._COPYING_ file left behind.
C37_GetmergeOnlyOnSuccess ==
    [][(po_calls' = po_calls + 1 /\ po_args'.op = "getmerge") =>
          /\ ~isfile(local', temporary_target(Dst))
          /\ IF po_outcome' = "returned"
             THEN FileAt(local', Dst)
                    = {[name |-> Dst, content |-> MergedBytes(namespace, po_args'.paths[1])]}
             ELSE FileAt(local', Dst) = FileAt(local, Dst)]_vars

(***************************************************************************)
(* Claims about the service tuple of HARpcService                          *)
(***************************************************************************)

\* The services configured at construction: one per namenode, numbered in
\* the order of the namenodes argument
Configured == 1..Len(reason)

\* The step in which the RPC on the active service fails with a
\* failover-class error
ActiveFailsOver ==
    /\ svc_pc = "active"
    /\ Len(svc_log') = Len(svc_log) + 1
    /\ LET r == svc_log'[Len(svc_log')]
       IN  r.svc = active_service /\ ~r.ok /\ FailoverClass(r.err)

\* The step in which active_service is set
BecomesActive == active_service = 0 /\ active_service' # 0

\* C38: services is always a permutation of the configured services and
\* active_service is None or one of them; when the active service fails with
\* a failover-class error it becomes the last element of services, the other
\* services keep their order and active_service becomes None; active_service
\* is set again only by an RPC that succeeded, to the service that answered.
C38_ServicesPermuted ==
    /\ [](/\ Len(services) = Cardinality(Configured)
          /\ Range(services) = Configured
          /\ active_service \in {0} \cup Range(services))
    /\ [][/\ ActiveFailsOver =>
                /\ active_service' = 0
                /\ services'[Len(services')] = active_service
                /\ SubSeq(services', 1, Len(services') - 1)
                     = SelectSeq2(services, active_service)
          /\ BecomesActive =>
                LET r == svc_log'[Len(svc_log')]
                IN  /\ Len(svc_log') = Len(svc_log) + 1
                    /\ r.ok /\ r.svc = active_service']_vars

\* A second call found the active service on standby, moved it behind the
\* other one and made the other one active
C38_Witness ==
    /\ svc_calls = 2 /\ svc_pc = "done" /\ svc_outcome = "returned"
    /\ services = <<2, 1>> /\ active_service = 2
    /\ Len(svc_log) = 2 /\ svc_log[1].svc = 1 /\ FailoverClass(svc_log[1].err)

(***************************************************************************)
(* Claims about the end of HARpcService.call                               *)
(***************************************************************************)

\* The RPC attempts of the call so far went to the services in list order,
\* after one attempt on the service that was active when the call began
InListOrder ==
    LET n == Len(svc_log)
    IN  \/ /\ n <= Len(services)
           /\ \A i \in 1..n : svc_log[i].svc = services[i]
        \/ /\ n >= 1
           /\ svc_log[1].svc = services[Len(services)]
           /\ \A i \in 2..n : svc_log[i].svc = services[i - 1]

\* Every service was tried in this call and no attempt did anything but fail
\* with a failover-class error
EveryServiceFailedOver ==
    /\ \A i \in 1..Len(svc_log) : ~svc_log[i].ok /\ FailoverClass(svc_log[i].err)
    /\ \A s \in Range(services) : \E i \in 1..Len(svc_log) : svc_log[i].svc = s

\* C39: a call makes at most |services| + 1 RPC attempts, on the previously
\* active service once and then on the services in list order, and it ends
\* in one of three ways: it returns the result of its last attempt, it
\* raises the non-failover error of its last attempt, or it raises
\* OutOfNNException after every service failed with a failover-class error.
C39_CallEndsThreeWays ==
    /\ Len(svc_log) <= Len(services) + 1
    /\ InListOrder
    /\ (svc_pc = "done" /\ svc_calls > 0) =>
          LET n == Len(svc_log)
          IN  \/ /\ svc_outcome = "returned"
                 /\ n >= 1 /\ svc_log[n].ok
                 /\ svc_result = [nn |-> svc_log[n].svc, val |-> svc_log[n].val]
              \/ /\ n >= 1 /\ ~svc_log[n].ok /\ ~FailoverClass(svc_log[n].err)
                 /\ svc_outcome = Raised(svc_log[n].err)
              \/ /\ svc_outcome = "OutOfNNException"
                 /\ EveryServiceFailedOver

(***************************************************************************)
(* Claims about glob.expand_path                                           *)
(***************************************************************************)

\* C40: expand_path returns for every input string, never running out of
\* memory or recursion depth; for the test path it returns the options of
\* the first group varying slowest, and what it returns for any input is
\* what the recursive definition gives.
C40_ExpandPathTerminates ==
    /\ [](gl_pc # "exhausted")
    /\ <>(gl_pc = "done")
    /\ [](gl_pc = "done" =>
             /\ gl_result = expand_path(gl_path)
             /\ gl_path = TestPath => gl_result = TestExpected)

====
